---- MODULE Spec2Model ----
(***************************************************************************)
(* State-machine model of the CPP-ML-Interface coupling library:           *)
(*   - the scheduling behaviors (MLCouplingBehaviorPeriodic and            *)
(*     MLCouplingBehaviorDefault),                                         *)
(*   - the configuration-driven assembly create_mlcoupling_from_config     *)
(*     together with the generated registry it dispatches to,              *)
(*   - the generated registry itself (name resolution, marshaller and      *)
(*     dispatchers) called directly.                                       *)
(***************************************************************************)
EXTENDS Integers, Sequences, FiniteSets, TLC

(***************************************************************************)
(* Bounds of the model.                                                    *)
(***************************************************************************)
MaxInterval == 3
MaxCoupled == 3
MaxStride == 2
MaxIncrement == 1
MaxSteps == 30

VARIABLES
    \* ---- scheduling behaviors ----
    cfg,            \* the four configuration ints of the periodic policy + the application capability
    step_count,     \* MLCouplingBehaviorPeriodic::step_count
    defaultVariant, \* which of the two MLCouplingBehaviorDefault definitions is built
    last,           \* the last scheduling query and what it returned
    spiCalls,       \* number of should_perform_inference() calls on the periodic policy so far
    \* ---- assembly ----
    config,         \* the parsed configuration: per section the class name and the literal parameters
    pc,             \* position inside create_mlcoupling_from_config
    module_instances, \* the instance table
    normalization, provider, behavior, application, \* the four local pointers
    coupling,       \* the returned MLCoupling object (or Null)
    outcome,        \* how the run ended
    error,          \* the diagnostic of the failure that ended the run
    attempts,       \* the construction attempts started so far, in order
    \* ---- registry ----
    call,           \* the last call of a registry function: its arguments and what it did
    \* ---- pipeline ----
    trace,          \* the last operation on the pipeline and the calls it made, in order
    teardown,       \* the finalize hooks run and the instances released so far, in order
    destroyed,      \* whether ~MLCoupling has run
    \* ---- command-line program ----
    args,           \* what the argument loop of main found
    mainpc,         \* position inside main
    step,           \* the loop variable of the dry-run
    exit_code,      \* the exit status of the process
    queries,        \* scheduling queries the dry-run made on the pipeline's behavior
    nullQueries,    \* scheduling queries the dry-run made through a null pipeline pointer
    \* ---- two periodic instances ----
    second,         \* a second MLCouplingBehaviorPeriodic object: its fields and its calls so far
    log,            \* the calls made on the first object so far, with their results
    \* ---- the loop of test.cpp ----
    tpc,            \* position inside the loop body
    sim_step,       \* the loop variable step: the simulation step
    local_perform_inference, \* the local perform_inference of the loop body
    local_time_step_delta,   \* the local time_step_delta of the loop body
    inferences,     \* the calls that asked for an inference, with the simulation step of each
    \* ---- the build ----
    build           \* what the build makes of an overflowing int multiplication

bvars == <<cfg, step_count, defaultVariant, last, spiCalls>>
avars == <<config, pc, module_instances, normalization, provider, behavior,
           application, coupling, outcome, error, attempts>>
rvars == <<call>>
pvars == <<trace, teardown, destroyed>>
mvars == <<args, mainpc, step, exit_code, queries, nullQueries>>
ivars == <<second, log>>
tvars == <<tpc, sim_step, local_perform_inference, local_time_step_delta, inferences>>
evars == <<pvars, mvars, ivars, tvars, build>>
vars == <<bvars, avars, rvars, evars>>

(***************************************************************************)
(* Scheduling behaviors                                                    *)
(***************************************************************************)

\* The configuration of test.cpp: MLCouplingBehaviorPeriodic behavior(10, 5, 1, 24)
TestCfg(sup) ==
    [inference_interval |-> 10, coupled_steps_before_inference |-> 5,
     coupled_steps_stride |-> 1, step_increment_after_inference |-> 24,
     supports |-> sup]

\* Constructor arguments of MLCouplingBehaviorPeriodic; supports is the answer of
\* properties->supports_coupling_without_inference().
\* inference_interval and coupled_steps_stride are divisors in the code, so they
\* are drawn from the positive values.
PeriodicConfigs ==
    [inference_interval : 1..MaxInterval,
     coupled_steps_before_inference : 0..MaxCoupled,
     coupled_steps_stride : 1..MaxStride,
     step_increment_after_inference : 0..MaxIncrement,
     supports : BOOLEAN]
    \cup {TestCfg(sup) : sup \in BOOLEAN}

NoCall == [obj |-> "none", op |-> "none", retB |-> FALSE, retI |-> 0]
BoolCall(o, f, b) == [obj |-> o, op |-> f, retB |-> b, retI |-> 0]
IntCall(o, f, i) == [obj |-> o, op |-> f, retB |-> FALSE, retI |-> i]

\* INT_MAX of the 32-bit int the configuration fields are declared with
IntMax == 2147483647

\* The outcomes of an int multiplication that overflows (undefined behaviour): the
\* low 32 bits of the product ("wraps"), or the product itself when the compiler
\* carries the multiplication out in the 64-bit type it is compared in ("widens");
\* the variable build holds which.
\* a * b is representable in int (a, b >= 0)
FitsInt(a, b) == a = 0 \/ b <= IntMax \div a

\* The low 32 bits of a * b read as a two's-complement int (0 <= a, b <= IntMax),
\* computed on 16-bit halves.
WrappedProduct(a, b) ==
    LET ah == a \div 65536
        al == a % 65536
        bh == b \div 65536
        bl == b % 65536
        x == (al \div 256) * bl
        y == (al % 256) * bl
        lowsum == (x % 256) * 256 + y
        lo16 == lowsum % 65536
        carry == lowsum \div 65536 + x \div 256
        hi16 == (carry + ((ah * bl) % 65536) + ((al * bh) % 65536)) % 65536
    IN  IF hi16 >= 32768 THEN (hi16 - 65536) * 65536 + lo16 ELSE hi16 * 65536 + lo16

\* coupled_steps_before_inference * coupled_steps_stride, when it fits in int
CoupledWindow(c) == c.coupled_steps_before_inference * c.coupled_steps_stride

\* step_count >= coupled_steps_before_inference * coupled_steps_stride: the product is
\* computed in int and then converted to the type of step_count
AtLeastWindow(sc, c) ==
    IF FitsInt(c.coupled_steps_before_inference, c.coupled_steps_stride)
    THEN sc >= CoupledWindow(c)
    ELSE IF build = "wraps"
    THEN sc >= WrappedProduct(c.coupled_steps_before_inference, c.coupled_steps_stride)
    ELSE FALSE

ShouldPerformInferenceResult_NoThreshold(sc, c) ==
    sc % c.inference_interval = 0

\* the value returned by should_perform_inference() once step_count was incremented to sc
ShouldPerformInferenceResult(sc, c) ==
    IF sc % c.inference_interval = 0
    THEN (IF AtLeastWindow(sc, c) THEN TRUE ELSE FALSE)
    ELSE FALSE

TimeStepDeltaResult_Interval(c) == c.inference_interval

\* the value returned by time_step_delta()
TimeStepDeltaResult(c) == c.step_increment_after_inference

\* the value returned by should_send_data() at step_count sc
ShouldSendDataResult(sc, c) ==
    IF c.supports
    THEN LET steps_since_last_inference == sc % c.inference_interval
             steps_until_next_inference == c.inference_interval - steps_since_last_inference
         IN  IF /\ ~AtLeastWindow(steps_until_next_inference, c)
                /\ steps_until_next_inference % c.coupled_steps_stride = 0
             THEN TRUE ELSE FALSE
    ELSE FALSE

\* bool MLCouplingBehaviorPeriodic::should_perform_inference()
PeriodicShouldPerformInference ==
    /\ step_count < MaxSteps
    /\ step_count' = step_count + 1
    /\ last' = BoolCall("periodic", "should_perform_inference",
                        ShouldPerformInferenceResult(step_count + 1, cfg))
    /\ spiCalls' = spiCalls + 1
    /\ UNCHANGED <<cfg, defaultVariant>>

\* int MLCouplingBehaviorPeriodic::time_step_delta()
PeriodicTimeStepDelta ==
    /\ last' = IntCall("periodic", "time_step_delta", TimeStepDeltaResult(cfg))
    /\ UNCHANGED <<cfg, step_count, defaultVariant, spiCalls>>

PeriodicShouldSendData_Counting ==
    /\ step_count < MaxSteps
    /\ step_count' = step_count + 1
    /\ last' = BoolCall("periodic", "should_send_data", ShouldSendDataResult(step_count + 1, cfg))
    /\ UNCHANGED <<cfg, defaultVariant, spiCalls>>

\* bool MLCouplingBehaviorPeriodic::should_send_data()
PeriodicShouldSendData ==
    /\ last' = BoolCall("periodic", "should_send_data", ShouldSendDataResult(step_count, cfg))
    /\ UNCHANGED <<cfg, step_count, defaultVariant, spiCalls>>

\* The repository holds two definitions of MLCouplingBehaviorDefault: one without
\* collaborator ("plain") and one built on MLCouplingApplicationProperties ("gated").
DefaultVariants == {"plain", "gated"}

\* bool MLCouplingBehaviorDefault::should_perform_inference()
DefaultShouldPerformInference ==
    /\ last' = BoolCall("default", "should_perform_inference", TRUE)
    /\ UNCHANGED <<cfg, step_count, defaultVariant, spiCalls>>

\* int MLCouplingBehaviorDefault::time_step_delta()
DefaultTimeStepDelta ==
    /\ last' = IntCall("default", "time_step_delta", 0)
    /\ UNCHANGED <<cfg, step_count, defaultVariant, spiCalls>>

\* bool MLCouplingBehaviorDefault::should_send_data()
DefaultShouldSendData ==
    /\ last' = BoolCall("default", "should_send_data",
                        IF defaultVariant = "plain" THEN TRUE ELSE cfg.supports)
    /\ UNCHANGED <<cfg, step_count, defaultVariant, spiCalls>>

InitBehavior ==
    /\ cfg \in PeriodicConfigs
    /\ step_count = 0
    /\ defaultVariant \in DefaultVariants
    /\ last = NoCall
    /\ spiCalls = 0

\* Configurations whose window product does or does not fit in int
WideValues == {0, 1, 3, 46340, 46341, 65536, IntMax}

WideConfigs ==
    [inference_interval : 1..2,
     coupled_steps_before_inference : WideValues,
     coupled_steps_stride : WideValues \ {0},
     step_increment_after_inference : {0},
     supports : BOOLEAN]


(***************************************************************************)
(* Generated registry                                                      *)
(***************************************************************************)

\* A std::pair<int, void*> parameter: the type tag and what the pointer points at.
\* Tags: 0 = untyped object, 1 = int64_t, 2 = double, 3 = string, 4 = bool,
\* -1 = module instance (txt names the instance by its class).  A number is
\* num, plus one half when half is set (doubles only).
IntegerValue(v) == [tag |-> 1, num |-> v, half |-> FALSE, txt |-> ""]
FloatValue(v) == [tag |-> 2, num |-> v, half |-> FALSE, txt |-> ""]
TextValue(s) == [tag |-> 3, num |-> 0, half |-> FALSE, txt |-> s]
BooleanValue(b) == [tag |-> 4, num |-> (IF b THEN 1 ELSE 0), half |-> FALSE, txt |-> ""]
ObjectRef(t, what) == [tag |-> t, num |-> 0, half |-> FALSE, txt |-> what]

\* the double v + 0.5
FloatAndHalf(v) == [tag |-> 2, num |-> v, half |-> TRUE, txt |-> ""]

EmptyParams == [n \in {} |-> IntegerValue(0)]

Lookup_NoPassThrough(table, name) == IF name \in DOMAIN table THEN table[name] ELSE ""

\* lookup.find(name): the mapped name, or the name itself when there is no entry
Lookup(table, name) == IF name \in DOMAIN table THEN table[name] ELSE name

provider_lookup_AliasOfName ==
    "Aixelerate" :> "MLCouplingProviderAixelerate"
    @@ "aixelerate" :> "Aixelerate"
    @@ "AIxelerate" :> "Aixelerate"
    @@ "Phydll" :> "MLCouplingProviderPhydll"
    @@ "phydll" :> "Phydll"
    @@ "PhyDLL" :> "Phydll"
    @@ "Smartsim" :> "MLCouplingProviderSmartsim"
    @@ "smartsim" :> "Smartsim"
    @@ "SmartSim" :> "Smartsim"

\* the static lookup table of resolve_provider_class_name
provider_lookup ==
    "Aixelerate" :> "MLCouplingProviderAixelerate"
    @@ "aixelerate" :> "MLCouplingProviderAixelerate"
    @@ "AIxelerate" :> "MLCouplingProviderAixelerate"
    @@ "Phydll" :> "MLCouplingProviderPhydll"
    @@ "phydll" :> "MLCouplingProviderPhydll"
    @@ "PhyDLL" :> "MLCouplingProviderPhydll"
    @@ "Smartsim" :> "MLCouplingProviderSmartsim"
    @@ "smartsim" :> "MLCouplingProviderSmartsim"
    @@ "SmartSim" :> "MLCouplingProviderSmartsim"

\* resolve_provider_class_name
resolve_provider_class_name(name_or_alias) == Lookup(provider_lookup, name_or_alias)

\* the static lookup table of resolve_normalization_class_name
normalization_lookup ==
    "MinMax" :> "MLCouplingMinMaxNormalization"
    @@ "minmax" :> "MLCouplingMinMaxNormalization"
    @@ "min-max" :> "MLCouplingMinMaxNormalization"
    @@ "MinMaxNormalization" :> "MLCouplingMinMaxNormalization"

\* resolve_normalization_class_name
resolve_normalization_class_name(name_or_alias) == Lookup(normalization_lookup, name_or_alias)

\* the static lookup table of resolve_behavior_class_name
behavior_lookup ==
    "Default" :> "MLCouplingBehaviorDefault"
    @@ "default" :> "MLCouplingBehaviorDefault"
    @@ "Periodic" :> "MLCouplingBehaviorPeriodic"
    @@ "periodic" :> "MLCouplingBehaviorPeriodic"

\* resolve_behavior_class_name
resolve_behavior_class_name(name_or_alias) == Lookup(behavior_lookup, name_or_alias)

\* the static lookup table of resolve_application_class_name
application_lookup ==
    "TurbulenceClosure" :> "MLCouplingApplicationTurbulenceClosure"
    @@ "turbulence-closure" :> "MLCouplingApplicationTurbulenceClosure"
    @@ "turbulence_closure" :> "MLCouplingApplicationTurbulenceClosure"
    @@ "turbulence" :> "MLCouplingApplicationTurbulenceClosure"

\* resolve_application_class_name
resolve_application_class_name(name_or_alias) == Lookup(application_lookup, name_or_alias)

\* resolve_class_name: the first category, in the order application, behavior,
\* provider, normalization, whose lookup changes the name
resolve_class_name(name_or_alias) ==
    IF resolve_application_class_name(name_or_alias) # name_or_alias
    THEN resolve_application_class_name(name_or_alias)
    ELSE IF resolve_behavior_class_name(name_or_alias) # name_or_alias
    THEN resolve_behavior_class_name(name_or_alias)
    ELSE IF resolve_provider_class_name(name_or_alias) # name_or_alias
    THEN resolve_provider_class_name(name_or_alias)
    ELSE IF resolve_normalization_class_name(name_or_alias) # name_or_alias
    THEN resolve_normalization_class_name(name_or_alias)
    ELSE name_or_alias

\* the static lookup table of resolve_category_to_base_class
category_lookup ==
    "provider" :> "MLCouplingProvider"
    @@ "normalization" :> "MLCouplingNormalization"
    @@ "behavior" :> "MLCouplingBehavior"
    @@ "application" :> "MLCouplingApplication"

\* resolve_category_to_base_class
resolve_category_to_base_class(category) == Lookup(category_lookup, category)

\* get_constructor_dependencies: pairs <<base class, parameter name>>
get_constructor_dependencies(class_name) ==
    IF class_name = "MLCouplingApplicationTurbulenceClosure"
    THEN << <<"MLCouplingNormalization", "normalization">> >>
    ELSE << >>

\* get_subclasses
get_subclasses(base_class_name) ==
    IF base_class_name = "MLCouplingProvider"
    THEN <<"MLCouplingProviderAixelerate", "MLCouplingProviderPhydll", "MLCouplingProviderSmartsim">>
    ELSE IF base_class_name = "MLCouplingNormalization"
    THEN <<"MLCouplingMinMaxNormalization">>
    ELSE IF base_class_name = "MLCouplingBehavior"
    THEN <<"MLCouplingBehaviorDefault", "MLCouplingBehaviorPeriodic">>
    ELSE IF base_class_name = "MLCouplingApplication"
    THEN <<"MLCouplingApplicationTurbulenceClosure">>
    ELSE << >>

NumericCastReturns_AnyTag(param) == param.tag \in {0, 1, 2, 3, 4}

\* config_param_cast<T> for an arithmetic T returns for tags 0, 1, 2, 4 and throws otherwise
NumericCastReturns(param) == param.tag \in {0, 1, 2, 4}

\* config_param_cast<std::string> returns for tag 3 and throws otherwise
StringCastReturns(param) == param.tag = 3

\* A constructed object: its class, the constructor signature that built it, and
\* what its dependency slot holds ("" when the class has none).
Instance(c, s, d) == [cls |-> c, sig |-> s, slot |-> d]
Null == Instance("nullptr", 0, "")

\* parameter.at(n) for every n of names returns (does not throw std::out_of_range)
Size(parameter) == Cardinality(DOMAIN parameter)

SmartsimIntNames == {"port", "nodes", "tasks_per_node", "cpus_per_task", "gpus_per_task"}

MinMaxValueNames == {"input_min", "input_max", "output_min", "output_max"}

PeriodicNames == {"inference_interval", "coupled_steps_before_inference",
                  "coupled_steps_stride", "step_increment_after_inference"}

MinOf(S) == CHOOSE x \in S : \A y \in S : x <= y

\* One constructor parameter: its name, its C++ type and whether it has a default
Arg(n, t, o) == [name |-> n, ctype |-> t, optional |-> o]

\* get_constructor_signatures: the constructors of a class in declaration order
get_constructor_signatures(class_name) ==
    IF class_name \in {"MLCouplingProviderAixelerate", "MLCouplingProviderPhydll"}
    THEN << << >> >>
    ELSE IF class_name = "MLCouplingProviderSmartsim"
    THEN << << Arg("host", "std::string", TRUE), Arg("port", "int", TRUE), Arg("nodes", "int", TRUE),
               Arg("tasks_per_node", "int", TRUE), Arg("cpus_per_task", "int", TRUE),
               Arg("gpus_per_task", "int", TRUE) >> >>
    ELSE IF class_name = "MLCouplingMinMaxNormalization"
    THEN << << Arg("input_min", "In", FALSE), Arg("input_max", "In", FALSE),
               Arg("output_min", "Out", FALSE), Arg("output_max", "Out", FALSE) >>,
            << Arg("input_data", "In*", FALSE), Arg("input_data_size", "int", FALSE),
               Arg("output_data", "Out*", FALSE), Arg("output_data_size", "int", FALSE) >>,
            << Arg("input_data", "MLCouplingData<In>", FALSE),
               Arg("output_data", "MLCouplingData<Out>", FALSE) >> >>
    ELSE IF class_name = "MLCouplingBehaviorDefault"
    THEN << << >> >>
    ELSE IF class_name = "MLCouplingBehaviorPeriodic"
    THEN << << Arg("inference_interval", "int", FALSE),
               Arg("coupled_steps_before_inference", "int", FALSE),
               Arg("coupled_steps_stride", "int", FALSE),
               Arg("step_increment_after_inference", "int", FALSE) >> >>
    ELSE IF class_name = "MLCouplingApplicationTurbulenceClosure"
    THEN << << Arg("input_data", "MLCouplingData<In>", FALSE),
               Arg("output_data", "MLCouplingData<Out>", FALSE),
               Arg("normalization", "MLCouplingNormalization<In, Out>*", FALSE) >> >>
    ELSE << >>

\* What the dispatcher's expression for one constructor argument does:
\*   config_param_cast<T>(parameter.at(name)) for int, In, Out and std::string,
\*   *reinterpret_cast<...>(parameter.at(name).second) for the pointer and data types
\*   (a read that never throws), and for a defaulted argument the default when
\*   parameter.find(name) == parameter.end().
EvalArg(parameter, a) ==
    IF a.name \notin DOMAIN parameter
    THEN (IF a.optional THEN "default" ELSE "out_of_range")
    ELSE IF a.ctype \in {"int", "In", "Out"}
    THEN (IF NumericCastReturns(parameter[a.name]) THEN "value" ELSE "runtime_error")
    ELSE IF a.ctype = "std::string"
    THEN (IF StringCastReturns(parameter[a.name]) THEN "value" ELSE "runtime_error")
    ELSE "value"

\* parameter.size() against the arity of the signature: == n without defaults,
\* >= 0 && <= n when every argument has a default
SizeMatches(parameter, sig) ==
    /\ Cardinality({i \in 1..Len(sig) : ~sig[i].optional}) <= Size(parameter)
    /\ Size(parameter) <= Len(sig)

\* One `if (parameter.size() ...) { try { ... return new C(...); } catch (...) {} }`
\* block: "size" when the block is not entered, the exception of the first argument
\* expression that throws (they are evaluated left to right), else "constructed".
TrySignature(parameter, sig) ==
    IF ~SizeMatches(parameter, sig)
    THEN "size"
    ELSE LET thrown == {i \in 1..Len(sig) :
                           EvalArg(parameter, sig[i]) \in {"out_of_range", "runtime_error"}}
         IN  IF thrown = {} THEN "constructed" ELSE EvalArg(parameter, sig[MinOf(thrown)])

SignatureAttempts_FirstOnly(parameter, sigs) ==
    IF sigs = << >> THEN << >> ELSE <<TrySignature(parameter, Head(sigs))>>

\* The blocks of one class run top to bottom until one returns the new object
RECURSIVE SignatureAttempts(_, _)
SignatureAttempts(parameter, sigs) ==
    IF sigs = << >>
    THEN << >>
    ELSE LET o == TrySignature(parameter, Head(sigs))
         IN  IF o = "constructed" THEN <<o>> ELSE <<o>> \o SignatureAttempts(parameter, Tail(sigs))

Constructed(tr) == tr # << >> /\ tr[Len(tr)] = "constructed"

\* The branch of a dispatcher for one class: the new object of the first block that
\* constructs, else the `return nullptr` after the last block.
ConstructFirstMatch(resolved_class_name, parameter, slots) ==
    LET tr == SignatureAttempts(parameter, get_constructor_signatures(resolved_class_name))
    IN  IF Constructed(tr)
        THEN {Instance(resolved_class_name, Len(tr), w) : w \in slots}
        ELSE {Null}

\* create_instance_mlcouplingprovider
create_instance_mlcouplingprovider(class_name, parameter) ==
    LET resolved_class_name == resolve_provider_class_name(class_name) IN
    IF resolved_class_name \in {"MLCouplingProviderAixelerate", "MLCouplingProviderPhydll",
                                "MLCouplingProviderSmartsim"}
    THEN ConstructFirstMatch(resolved_class_name, parameter, {""})
    ELSE {Null}

\* create_instance_mlcouplingnormalization
create_instance_mlcouplingnormalization(class_name, parameter) ==
    LET resolved_class_name == resolve_normalization_class_name(class_name) IN
    IF resolved_class_name = "MLCouplingMinMaxNormalization"
    THEN ConstructFirstMatch(resolved_class_name, parameter, {""})
    ELSE {Null}

\* create_instance_mlcouplingbehavior
create_instance_mlcouplingbehavior(class_name, parameter) ==
    LET resolved_class_name == resolve_behavior_class_name(class_name) IN
    IF resolved_class_name \in {"MLCouplingBehaviorDefault", "MLCouplingBehaviorPeriodic"}
    THEN ConstructFirstMatch(resolved_class_name, parameter, {""})
    ELSE {Null}

\* *reinterpret_cast<MLCouplingNormalization<In, Out> **>(param.second): the first
\* pointer-sized word of whatever param.second points at, read as a pointer.  For a
\* module instance that word belongs to the object representation (its vtable
\* pointer on the usual ABIs), for a literal it is the literal's storage; the
\* result is whatever the build makes of it, never the address in param.second.
ReadPointerThrough(param) ==
    IF param.tag = -1
    THEN {"vtable word of " \o param.txt, "indeterminate word of " \o param.txt}
    ELSE {"storage of a literal", "indeterminate"}

\* create_instance_mlcouplingapplication
create_instance_mlcouplingapplication(class_name, parameter) ==
    LET resolved_class_name == resolve_application_class_name(class_name) IN
    IF resolved_class_name = "MLCouplingApplicationTurbulenceClosure"
    THEN ConstructFirstMatch(resolved_class_name, parameter,
             IF "normalization" \in DOMAIN parameter
             THEN ReadPointerThrough(parameter["normalization"]) ELSE {""})
    ELSE {Null}

CreateInstance(category, class_name, parameter) ==
    IF category = "normalization" THEN create_instance_mlcouplingnormalization(class_name, parameter)
    ELSE IF category = "provider" THEN create_instance_mlcouplingprovider(class_name, parameter)
    ELSE IF category = "behavior" THEN create_instance_mlcouplingbehavior(class_name, parameter)
    ELSE create_instance_mlcouplingapplication(class_name, parameter)



(***************************************************************************)
(* The registry functions called directly                                  *)
(***************************************************************************)

Categories == {"provider", "normalization", "behavior", "application"}

\* resolve_<category>_class_name
ResolveIn(category, name_or_alias) ==
    IF category = "provider" THEN resolve_provider_class_name(name_or_alias)
    ELSE IF category = "normalization" THEN resolve_normalization_class_name(name_or_alias)
    ELSE IF category = "behavior" THEN resolve_behavior_class_name(name_or_alias)
    ELSE resolve_application_class_name(name_or_alias)

\* the classes a dispatcher has a branch for
DispatchedClasses(category) ==
    IF category = "provider"
    THEN {"MLCouplingProviderAixelerate", "MLCouplingProviderPhydll", "MLCouplingProviderSmartsim"}
    ELSE IF category = "normalization" THEN {"MLCouplingMinMaxNormalization"}
    ELSE IF category = "behavior" THEN {"MLCouplingBehaviorDefault", "MLCouplingBehaviorPeriodic"}
    ELSE {"MLCouplingApplicationTurbulenceClosure"}

\* the constructor blocks a dispatcher call runs through, in order, with what each did
DispatchTrace(category, class_name, parameter) ==
    IF ResolveIn(category, class_name) \in DispatchedClasses(category)
    THEN SignatureAttempts(parameter, get_constructor_signatures(ResolveIn(category, class_name)))
    ELSE << >>

\* the types config_param_cast is instantiated for by the dispatchers: int, the
\* data types In and Out (float in main.cpp), and std::string
CastTargets == {"int", "float", "std::string"}

\* whether config_param_cast<target> returns (TRUE) or throws std::runtime_error
CastReturns(target, param) ==
    IF target = "std::string" THEN StringCastReturns(param) ELSE NumericCastReturns(param)

\* The value config_param_cast<target> returns (a zero or an empty string when it
\* throws).  static_cast<int> of a double drops the fraction (truncation toward
\* zero); an int64_t, a bool and a double convert to float and an int64_t or a bool
\* to int without change for the values of the model, which lie within the range
\* of every target.
CastValue(target, param) ==
    IF target = "std::string"
    THEN TextValue(IF StringCastReturns(param) THEN param.txt ELSE "")
    ELSE IF ~NumericCastReturns(param) THEN IntegerValue(0)
    ELSE IF target = "int"
    THEN IntegerValue(IF param.half /\ param.num < 0 THEN param.num + 1 ELSE param.num)
    ELSE [tag |-> 2, num |-> param.num, half |-> param.half, txt |-> ""]

\* the default the dispatcher writes out for a defaulted constructor argument
DefaultOf_Zero(class_name, arg_name) ==
    IF arg_name = "host" THEN TextValue("localhost") ELSE IntegerValue(0)

DefaultOf(class_name, arg_name) ==
    IF class_name = "MLCouplingProviderSmartsim"
    THEN IF arg_name = "host" THEN TextValue("localhost")
         ELSE IF arg_name = "port" THEN IntegerValue(6379)
         ELSE IF arg_name = "gpus_per_task" THEN IntegerValue(0)
         ELSE IntegerValue(1)
    ELSE IntegerValue(0)

\* the value of the dispatcher's expression for one constructor argument
ArgumentValue(class_name, parameter, a) ==
    IF a.name \notin DOMAIN parameter THEN DefaultOf(class_name, a.name)
    ELSE IF a.ctype = "int" THEN CastValue("int", parameter[a.name])
    ELSE IF a.ctype \in {"In", "Out"} THEN CastValue("float", parameter[a.name])
    ELSE IF a.ctype = "std::string" THEN CastValue("std::string", parameter[a.name])
    ELSE parameter[a.name]

\* the arguments of the constructor call `new C(...)` a dispatcher call ends with
ConstructorArguments(category, class_name, parameter) ==
    LET tr == DispatchTrace(category, class_name, parameter)
        resolved_class_name == ResolveIn(category, class_name)
    IN  IF Constructed(tr)
        THEN LET sig == get_constructor_signatures(resolved_class_name)[Len(tr)]
             IN  [i \in 1..Len(sig) |-> ArgumentValue(resolved_class_name, parameter, sig[i])]
        ELSE << >>

\* ---- the arguments the functions are called with ----

\* names given to the lookups: registry names, aliases, canonical and base class
\* names, category names, and strings the registry does not know
LookupNames ==
    DOMAIN provider_lookup \cup DOMAIN normalization_lookup \cup DOMAIN behavior_lookup
    \cup DOMAIN application_lookup \cup DOMAIN category_lookup
    \cup UNION {DispatchedClasses(c) : c \in Categories}
    \cup {category_lookup[c] : c \in Categories}
    \cup {"", "NoSuchClass", "SMARTSIM", "Provider", "mlcouplingproviderphydll"}

TaggedValues ==
    {IntegerValue(0), IntegerValue(7), IntegerValue(-3), FloatValue(2), FloatAndHalf(2),
     FloatAndHalf(-3),
     TextValue("ten"), TextValue(""), BooleanValue(TRUE), BooleanValue(FALSE),
     ObjectRef(0, "input_data"), ObjectRef(-1, "MLCouplingMinMaxNormalization")}

\* the values tried for a parameter name
ValuesFor(n) ==
    IF n \in {"input_data", "output_data"} THEN {ObjectRef(0, n)}
    ELSE IF n = "normalization"
    THEN {ObjectRef(-1, "MLCouplingMinMaxNormalization"), IntegerValue(1)}
    ELSE IF n \in MinMaxValueNames \cup {"input_data_size", "output_data_size"}
    THEN {IntegerValue(1), TextValue("x")}
    ELSE {IntegerValue(1), TextValue("x"), BooleanValue(TRUE)}

\* every parameter map over a subset of names
RECURSIVE ParameterSetsOver(_)
ParameterSetsOver(names) ==
    IF names = {}
    THEN {EmptyParams}
    ELSE LET n == CHOOSE x \in names : TRUE
             rest == ParameterSetsOver(names \ {n})
         IN  rest \cup {(n :> v) @@ f : v \in ValuesFor(n), f \in rest}

\* seven parameters for the six-argument constructor
SmartsimOversized ==
    "host" :> TextValue("x") @@ "colour" :> IntegerValue(1)
    @@ [n \in SmartsimIntNames |-> IntegerValue(1)]

\* every subset of the six Smartsim parameters, a Text for host and an Integer or a
\* Float for the others
SmartsimWellTyped ==
    {h @@ f : h \in {EmptyParams, "host" :> TextValue("node7")},
              f \in UNION {[names -> {IntegerValue(7), FloatAndHalf(2)}] :
                              names \in SUBSET SmartsimIntNames}}

ParameterSetsFor(category) ==
    IF category = "provider"
    THEN ParameterSetsOver({"host", "port", "nodes", "colour"}) \cup {SmartsimOversized}
         \cup SmartsimWellTyped
    ELSE IF category = "normalization"
    THEN ParameterSetsOver(MinMaxValueNames
             \cup {"input_data", "input_data_size", "output_data", "output_data_size"})
    ELSE IF category = "behavior"
    THEN ParameterSetsOver(PeriodicNames \cup {"extra"})
    ELSE ParameterSetsOver({"input_data", "output_data", "normalization", "filter_width"})

ClassNamesFor(category) ==
    IF category = "provider"
    THEN {"MLCouplingProviderSmartsim", "smartsim", "MLCouplingProviderPhydll", "Aixelerate",
          "NoSuchProvider", "MLCouplingBehaviorDefault"}
    ELSE IF category = "normalization"
    THEN {"MLCouplingMinMaxNormalization", "min-max", "NoSuchNormalization"}
    ELSE IF category = "behavior"
    THEN {"MLCouplingBehaviorPeriodic", "periodic", "MLCouplingBehaviorDefault", "Default",
          "NoSuchBehavior"}
    ELSE {"MLCouplingApplicationTurbulenceClosure", "turbulence", "minmax", "NoSuchApplication"}

\* A call of a registry function: the arguments, and once it is done what it gave
Request(f, c, n, t, v, ps) ==
    [op |-> f, category |-> c, name |-> n, target |-> t, param |-> v, parameter |-> ps,
     done |-> FALSE, again |-> FALSE, given |-> "", text |-> "", threw |-> FALSE,
     value |-> IntegerValue(0), trace |-> << >>, inst |-> Null, args |-> << >>]

NoRegistryCall == Request("none", "", "", "", IntegerValue(0), EmptyParams)

Requests ==
    {Request("resolve", c, n, "", IntegerValue(0), EmptyParams) : c \in Categories, n \in LookupNames}
    \cup {Request("resolve_class_name", "", n, "", IntegerValue(0), EmptyParams) : n \in LookupNames}
    \cup {Request("resolve_category_to_base_class", "", n, "", IntegerValue(0), EmptyParams) :
             n \in LookupNames}
    \cup {Request("config_param_cast", "", "", t, v, EmptyParams) : t \in CastTargets, v \in TaggedValues}
    \cup UNION {{Request("create_instance", c, n, "", IntegerValue(0), ps) :
                    n \in ClassNamesFor(c), ps \in ParameterSetsFor(c)} : c \in Categories}

Pending(f) == call.op = f /\ ~call.done

\* a call of resolve_<category>_class_name
ResolveCategoryClassName ==
    /\ Pending("resolve")
    /\ call' = [call EXCEPT !.done = TRUE, !.text = ResolveIn(call.category, call.name)]
    /\ UNCHANGED <<bvars, avars, evars>>

\* a call of resolve_class_name
ResolveClassName ==
    /\ Pending("resolve_class_name")
    /\ call' = [call EXCEPT !.done = TRUE, !.text = resolve_class_name(call.name)]
    /\ UNCHANGED <<bvars, avars, evars>>

\* the name a resolve call returned is resolved once more
ResolveResolved ==
    /\ call.op \in {"resolve", "resolve_class_name"}
    /\ call.done
    /\ ~call.again
    /\ call' = [call EXCEPT !.again = TRUE, !.given = call.name, !.name = call.text,
                            !.text = IF call.op = "resolve"
                                     THEN ResolveIn(call.category, call.text)
                                     ELSE resolve_class_name(call.text)]
    /\ UNCHANGED <<bvars, avars, evars>>

\* a call of resolve_category_to_base_class
ResolveCategoryToBaseClass ==
    /\ Pending("resolve_category_to_base_class")
    /\ call' = [call EXCEPT !.done = TRUE, !.text = resolve_category_to_base_class(call.name)]
    /\ UNCHANGED <<bvars, avars, evars>>

\* a call of config_param_cast<target>
ConfigParamCast ==
    /\ Pending("config_param_cast")
    /\ call' = [call EXCEPT !.done = TRUE,
                            !.threw = ~CastReturns(call.target, call.param),
                            !.value = CastValue(call.target, call.param)]
    /\ UNCHANGED <<bvars, avars, evars>>

\* a call of create_instance_mlcoupling<category>
CreateInstanceCall ==
    /\ Pending("create_instance")
    /\ \E i \in CreateInstance(call.category, call.name, call.parameter) :
          call' = [call EXCEPT !.done = TRUE, !.inst = i,
                               !.trace = DispatchTrace(call.category, call.name, call.parameter),
                               !.args = ConstructorArguments(call.category, call.name,
                                                             call.parameter)]
    /\ UNCHANGED <<bvars, avars, evars>>

InitRegistry == call \in Requests

\* no registry function called directly
RegistryIdle == call = NoRegistryCall


(***************************************************************************)
(* Assembly: create_mlcoupling_object and create_mlcoupling_from_config    *)
(***************************************************************************)

Section(c, p) == [class |-> c, params |-> p]
Absent == Section("", EmptyParams)

MinMaxValues ==
    "input_min" :> FloatValue(0) @@ "input_max" :> FloatValue(1)
    @@ "output_min" :> IntegerValue(0) @@ "output_max" :> IntegerValue(2)

PeriodicValues ==
    "inference_interval" :> IntegerValue(10) @@ "coupled_steps_before_inference" :> IntegerValue(5)
    @@ "coupled_steps_stride" :> IntegerValue(1) @@ "step_increment_after_inference" :> IntegerValue(24)

\* The [normalization] sections the runs are started with (class "" = no class key).
NormalizationSections ==
    { Absent,
      Section("MLCouplingMinMaxNormalization", MinMaxValues),
      Section("minmax", MinMaxValues),
      Section("MLCouplingMinMaxNormalization", "input_min" :> TextValue("low") @@ MinMaxValues),
      Section("MinMax", EmptyParams),
      Section("NoSuchNormalization", MinMaxValues) }

\* The [provider] sections the runs are started with.
ProviderSections ==
    { Absent,
      Section("MLCouplingProviderPhydll", EmptyParams),
      Section("phydll", EmptyParams),
      Section("Aixelerate", "device" :> IntegerValue(0)),
      Section("MLCouplingProviderSmartsim", EmptyParams),
      Section("SmartSim", "host" :> TextValue("node1") @@ "port" :> IntegerValue(6380)),
      Section("smartsim", "port" :> TextValue("6380")),
      Section("NoSuchProvider", EmptyParams) }

\* The [behavior] sections the runs are started with.
BehaviorSections ==
    { Absent,
      Section("MLCouplingBehaviorDefault", EmptyParams),
      Section("default", EmptyParams),
      Section("MLCouplingBehaviorPeriodic", PeriodicValues),
      Section("periodic", PeriodicValues),
      Section("Periodic", "inference_interval" :> TextValue("ten") @@ PeriodicValues),
      Section("periodic", EmptyParams),
      Section("NoSuchBehavior", EmptyParams) }

\* The [application] sections the runs are started with.
ApplicationSections ==
    { Absent,
      Section("MLCouplingApplicationTurbulenceClosure", EmptyParams),
      Section("turbulence", EmptyParams),
      Section("TurbulenceClosure", "filter_width" :> IntegerValue(3)),
      Section("NoSuchApplication", EmptyParams) }

Configs ==
    [normalization : NormalizationSections, provider : ProviderSections,
     behavior : BehaviorSections, application : ApplicationSections]

EmptyConfig ==
    [normalization |-> Absent, provider |-> Absent, behavior |-> Absent, application |-> Absent]

NoInstances == [n \in {} |-> ObjectRef(-1, "")]

\* No MLCoupling object
NoPipeline == [provider |-> Null, application |-> Null, behavior |-> Null]

\* MLCoupling<In, Out>::MLCoupling(provider, application, behavior)
MLCoupling(p, a, b) ==
    [provider |-> p, application |-> a,
     behavior |-> IF b = Null THEN Instance("MLCouplingBehaviorDefault", 1, "") ELSE b]

\* The dependency loop of create_mlcoupling_object: every dependency slot is filled
\* from the first class of (subclasses, base) that has an entry in the instance table.
RECURSIVE FillDependencies(_, _, _)
FillDependencies(deps, module_params, instances) ==
    IF deps = << >>
    THEN [found |-> TRUE, params |-> module_params]
    ELSE LET dependency_type == Head(deps)[1]
             dependency_name == Head(deps)[2]
             possible_class_names == Append(get_subclasses(dependency_type), dependency_type)
             hits == {i \in 1..Len(possible_class_names) : possible_class_names[i] \in DOMAIN instances}
         IN  IF hits = {}
             THEN [found |-> FALSE, params |-> module_params]
             ELSE FillDependencies(Tail(deps),
                      (dependency_name :> instances[possible_class_names[MinOf(hits)]]) @@ module_params,
                      instances)

\* The dependencies create_mlcoupling_object looks up: those of the class name as
\* the configuration spells it.
DependenciesOf(category, module_classname) ==
    get_constructor_dependencies(module_classname)

\* create_mlcoupling_object: the possible results, each the returned pointer and
\* the diagnostic ("none" on success).
create_mlcoupling_object(category, module_classname, module_params, instances) ==
    LET filled == FillDependencies(DependenciesOf(category, module_classname), module_params, instances) IN
    IF ~filled.found
    THEN {[inst |-> Null, err |-> "MissingDependency"]}
    ELSE {[inst |-> i, err |-> IF i = Null THEN "ConstructionFailure" ELSE "none"] :
             i \in CreateInstance(category, module_classname, filled.params)}

NextCategory_BehaviorFirst(c) ==
    IF c = "normalization" THEN "behavior"
    ELSE IF c = "behavior" THEN "provider"
    ELSE IF c = "provider" THEN "application"
    ELSE "assemble"

\* The order of the four blocks of create_mlcoupling_from_config
NextCategory(c) ==
    IF c = "normalization" THEN "provider"
    ELSE IF c = "provider" THEN "behavior"
    ELSE IF c = "behavior" THEN "application"
    ELSE "assemble"

Register(name, tag, inst) == (name :> ObjectRef(tag, inst.cls)) @@ module_instances

\* how a run ends without reaching the return statement of the MLCoupling object
Exit1(err) ==
    /\ pc' = "exited"
    /\ outcome' = "exit(1)"
    /\ error' = err

ReturnNull(err) ==
    /\ pc' = "returned"
    /\ outcome' = "nullptr"
    /\ error' = err

\* config.hpp: the normalization block (the normalize_input call on the dummy data
\* that follows a successful construction touches only that block's locals)
StepNormalization ==
    /\ pc = "normalization"
    /\ LET sec == config.normalization IN
       IF sec.class = ""
       THEN /\ pc' = NextCategory("normalization")
            /\ UNCHANGED <<module_instances, normalization, outcome, error, attempts>>
       ELSE \E r \in create_mlcoupling_object("normalization", sec.class, sec.params, module_instances) :
            /\ attempts' = Append(attempts, "normalization")
            /\ normalization' = r.inst
            /\ IF r.inst # Null
               THEN /\ module_instances' = Register(resolve_normalization_class_name(sec.class), -1, r.inst)
                    /\ pc' = NextCategory("normalization")
                    /\ UNCHANGED <<outcome, error>>
               ELSE /\ Exit1(r.err)
                    /\ UNCHANGED module_instances
    /\ UNCHANGED <<config, provider, behavior, application, coupling>>
    /\ UNCHANGED <<bvars, rvars, evars>>

StepProvider_Continue ==
    /\ pc = "provider"
    /\ LET sec == config.provider IN
       IF sec.class = ""
       THEN /\ pc' = NextCategory("provider")
            /\ UNCHANGED <<module_instances, provider, outcome, error, attempts>>
       ELSE \E r \in create_mlcoupling_object("provider", sec.class, sec.params, module_instances) :
            /\ attempts' = Append(attempts, "provider")
            /\ provider' = r.inst
            /\ IF r.inst # Null
               THEN /\ module_instances' = Register(resolve_provider_class_name(sec.class), -1, r.inst)
                    /\ pc' = NextCategory("provider")
                    /\ UNCHANGED <<outcome, error>>
               ELSE /\ Exit1(r.err)
                    /\ UNCHANGED module_instances
    /\ UNCHANGED <<config, normalization, behavior, application, coupling>>
    /\ UNCHANGED <<bvars, rvars, evars>>

\* config.hpp: the provider block
StepProvider ==
    /\ pc = "provider"
    /\ LET sec == config.provider IN
       IF sec.class = ""
       THEN /\ ReturnNull("ConfigSectionMissing")
            /\ UNCHANGED <<module_instances, provider, attempts>>
       ELSE \E r \in create_mlcoupling_object("provider", sec.class, sec.params, module_instances) :
            /\ attempts' = Append(attempts, "provider")
            /\ provider' = r.inst
            /\ IF r.inst # Null
               THEN /\ module_instances' = Register(resolve_provider_class_name(sec.class), -1, r.inst)
                    /\ pc' = NextCategory("provider")
                    /\ UNCHANGED <<outcome, error>>
               ELSE /\ Exit1(r.err)
                    /\ UNCHANGED module_instances
    /\ UNCHANGED <<config, normalization, behavior, application, coupling>>
    /\ UNCHANGED <<bvars, rvars, evars>>

StepBehavior_RegisterAsConfigured ==
    /\ pc = "behavior"
    /\ LET sec == config.behavior IN
       IF sec.class = ""
       THEN /\ behavior' = Instance("MLCouplingBehaviorDefault", 1, "")
            /\ module_instances' = Register(resolve_behavior_class_name("MLCouplingBehaviorDefault"), -1,
                                            Instance("MLCouplingBehaviorDefault", 1, ""))
            /\ pc' = NextCategory("behavior")
            /\ UNCHANGED <<outcome, error, attempts>>
       ELSE \E r \in create_mlcoupling_object("behavior", sec.class, sec.params, module_instances) :
            /\ attempts' = Append(attempts, "behavior")
            /\ behavior' = r.inst
            /\ IF r.inst # Null
               THEN /\ module_instances' = Register(sec.class, -1, r.inst)
                    /\ pc' = NextCategory("behavior")
                    /\ UNCHANGED <<outcome, error>>
               ELSE /\ Exit1(r.err)
                    /\ UNCHANGED module_instances
    /\ UNCHANGED <<config, normalization, provider, application, coupling>>
    /\ UNCHANGED <<bvars, rvars, evars>>

\* config.hpp: the behavior block
StepBehavior ==
    /\ pc = "behavior"
    /\ LET sec == config.behavior IN
       IF sec.class = ""
       THEN /\ behavior' = Instance("MLCouplingBehaviorDefault", 1, "")
            /\ module_instances' = Register(resolve_behavior_class_name("MLCouplingBehaviorDefault"), -1,
                                            Instance("MLCouplingBehaviorDefault", 1, ""))
            /\ pc' = NextCategory("behavior")
            /\ UNCHANGED <<outcome, error, attempts>>
       ELSE \E r \in create_mlcoupling_object("behavior", sec.class, sec.params, module_instances) :
            /\ attempts' = Append(attempts, "behavior")
            /\ behavior' = r.inst
            /\ IF r.inst # Null
               THEN /\ module_instances' = Register(resolve_behavior_class_name(sec.class), -1, r.inst)
                    /\ pc' = NextCategory("behavior")
                    /\ UNCHANGED <<outcome, error>>
               ELSE /\ Exit1(r.err)
                    /\ UNCHANGED module_instances
    /\ UNCHANGED <<config, normalization, provider, application, coupling>>
    /\ UNCHANGED <<bvars, rvars, evars>>

StepApplication_Continue ==
    /\ pc = "application"
    /\ LET sec == config.application
           application_params ==
               "input_data" :> ObjectRef(0, "input_data")
               @@ "output_data" :> ObjectRef(0, "output_data") @@ sec.params
       IN
       IF sec.class = ""
       THEN /\ Exit1("ConfigSectionMissing")
            /\ UNCHANGED <<module_instances, application, attempts>>
       ELSE \E r \in create_mlcoupling_object("application", sec.class, application_params, module_instances) :
            /\ attempts' = Append(attempts, "application")
            /\ application' = r.inst
            /\ IF r.inst # Null
               THEN /\ module_instances' = Register(resolve_application_class_name(sec.class), 0, r.inst)
                    /\ pc' = NextCategory("application")
                    /\ UNCHANGED <<outcome, error>>
               ELSE /\ pc' = NextCategory("application")
                    /\ UNCHANGED <<module_instances, outcome, error>>
    /\ UNCHANGED <<config, normalization, provider, behavior, coupling>>
    /\ UNCHANGED <<bvars, rvars, evars>>

\* config.hpp: the application block
StepApplication ==
    /\ pc = "application"
    /\ LET sec == config.application
           application_params ==
               "input_data" :> ObjectRef(0, "input_data")
               @@ "output_data" :> ObjectRef(0, "output_data") @@ sec.params
       IN
       IF sec.class = ""
       THEN /\ Exit1("ConfigSectionMissing")
            /\ UNCHANGED <<module_instances, application, attempts>>
       ELSE \E r \in create_mlcoupling_object("application", sec.class, application_params, module_instances) :
            /\ attempts' = Append(attempts, "application")
            /\ application' = r.inst
            /\ IF r.inst # Null
               THEN /\ module_instances' = Register(resolve_application_class_name(sec.class), 0, r.inst)
                    /\ pc' = NextCategory("application")
                    /\ UNCHANGED <<outcome, error>>
               ELSE /\ ReturnNull(r.err)
                    /\ UNCHANGED module_instances
    /\ UNCHANGED <<config, normalization, provider, behavior, coupling>>
    /\ UNCHANGED <<bvars, rvars, evars>>

\* config.hpp: return new MLCoupling<In, Out>(provider, application, behavior)
ReturnCoupling ==
    /\ pc = "assemble"
    /\ coupling' = MLCoupling(provider, application, behavior)
    /\ pc' = "returned"
    /\ outcome' = "pipeline"
    /\ UNCHANGED <<config, module_instances, normalization, provider, behavior, application,
                   error, attempts>>
    /\ UNCHANGED <<bvars, rvars, evars>>

InitAssembly ==
    /\ config \in Configs
    /\ pc = "normalization"
    /\ module_instances = NoInstances
    /\ normalization = Null
    /\ provider = Null
    /\ behavior = Null
    /\ application = Null
    /\ coupling = NoPipeline
    /\ outcome = "running"
    /\ error = "none"
    /\ attempts = << >>

\* no assembly run in progress
AssemblyIdle ==
    /\ config = EmptyConfig
    /\ pc = "idle"
    /\ module_instances = NoInstances
    /\ normalization = Null
    /\ provider = Null
    /\ behavior = Null
    /\ application = Null
    /\ coupling = NoPipeline
    /\ outcome = "running"
    /\ error = "none"
    /\ attempts = << >>

\* no behavior queried
BehaviorIdle ==
    /\ cfg = TestCfg(TRUE)
    /\ step_count = 0
    /\ defaultVariant = "plain"
    /\ last = NoCall
    /\ spiCalls = 0


(***************************************************************************)
(* The pipeline object (MLCoupling) and its application                    *)
(***************************************************************************)

\* how often MLCoupling::finalize() is called in a run of the model
MaxFinalizeCalls == 1

Operation(f, c, i, ev) == [op |-> f, perform_coupling |-> c, perform_inference |-> i,
                           events |-> ev]

\* the pipeline create_mlcoupling_from_config returned is in use
PipelineInUse == outcome = "pipeline" /\ ~destroyed

IsPeriodic(inst) == inst.cls = "MLCouplingBehaviorPeriodic"

\* the body of the if in MLCoupling::ml_step()
InferencePass_PostprocessFirst ==
    <<"application.postprocess", "application.ml_step", "application.preprocess">>

InferencePass ==
    <<"application.preprocess", "application.ml_step", "application.postprocess">>

\* void MLCoupling::ml_step(): application && behavior && behavior->should_perform_inference()
\* is evaluated left to right, the query being made only when both pointers are set
CouplingMlStep ==
    /\ PipelineInUse
    /\ IF coupling.application # Null /\ coupling.behavior # Null
       THEN IF IsPeriodic(coupling.behavior)
            THEN /\ PeriodicShouldPerformInference
                 /\ trace' = Operation("ml_step", FALSE, FALSE,
                                 <<"behavior.should_perform_inference">>
                                 \o (IF last'.retB THEN InferencePass ELSE << >>))
            ELSE /\ DefaultShouldPerformInference
                 /\ trace' = Operation("ml_step", FALSE, FALSE,
                                 <<"behavior.should_perform_inference">>
                                 \o (IF last'.retB THEN InferencePass ELSE << >>))
       ELSE /\ trace' = Operation("ml_step", FALSE, FALSE, << >>)
            /\ UNCHANGED bvars
    /\ UNCHANGED <<teardown, destroyed>>
    /\ UNCHANGED <<avars, rvars, mvars, ivars, tvars, build>>

\* The repository holds two definitions of MLCouplingApplication::step: the one of the
\* class that owns its buffers and its normalization ("buffers") and the one of the
\* class built on a data processor ("data_processor"), which its constructor is handed.
ApplicationVersions == {"buffers", "data_processor"}

StepEvents_CouplingLast(version, data_processor, perform_coupling, perform_inference) ==
    IF ~perform_coupling /\ ~perform_inference
    THEN << >>
    ELSE <<"preprocess">>
         \o (IF perform_inference THEN <<"ml_step">> ELSE << >>)
         \o (IF perform_coupling THEN <<"coupling_step">> ELSE << >>)

\* the calls of MLCouplingApplication::step(perform_coupling, perform_inference), in order
StepEvents(version, data_processor, perform_coupling, perform_inference) ==
    IF ~perform_coupling /\ ~perform_inference
    THEN << >>
    ELSE (IF version = "buffers" \/ data_processor = "present"
          THEN <<"preprocess">> ELSE << >>)
         \o (IF perform_coupling THEN <<"coupling_step">> ELSE << >>)
         \o (IF perform_inference THEN <<"ml_step">> ELSE << >>)

\* void MLCouplingApplication::step(bool perform_coupling, bool perform_inference)
ApplicationStep ==
    /\ PipelineInUse
    /\ coupling.application # Null
    /\ \E version \in ApplicationVersions, data_processor \in {"present"},
          perform_coupling \in BOOLEAN, perform_inference \in BOOLEAN :
          trace' = Operation("step:" \o version, perform_coupling, perform_inference,
                       StepEvents(version, data_processor, perform_coupling, perform_inference))
    /\ UNCHANGED <<teardown, destroyed>>
    /\ UNCHANGED <<bvars, avars, rvars, mvars, ivars, tvars, build>>

\* void MLCoupling::finalize(): the provider's hook, then the application's
CouplingFinalize ==
    /\ PipelineInUse
    /\ Len(SelectSeq(teardown, LAMBDA e : e = "provider.finalize")) < MaxFinalizeCalls
    /\ LET hooks == (IF coupling.provider # Null THEN <<"provider.finalize">> ELSE << >>)
                    \o (IF coupling.application # Null THEN <<"application.finalize">> ELSE << >>)
       IN  /\ trace' = Operation("finalize", FALSE, FALSE, hooks)
           /\ teardown' = teardown \o hooks
    /\ UNCHANGED destroyed
    /\ UNCHANGED <<bvars, avars, rvars, mvars, ivars, tvars, build>>

\* What releasing the application releases with it: its normalization member is a
\* unique_ptr, reset to the pointer the constructor was handed.  A pointer read from
\* the wrong address is indeterminate; deleting it either goes unnoticed or ends the
\* process.
ReleaseApplication(app) ==
    IF app = Null THEN {<< >>}
    ELSE IF app.slot = "" THEN {<<"release application">>}
    ELSE IF app.slot \in {"MLCouplingMinMaxNormalization"}
    THEN {<<"release application", "release normalization">>}
    ELSE {<<"release application", "delete indeterminate pointer">>,
          <<"release application", "delete indeterminate pointer", "abort">>}

\* The members of MLCoupling are declared parameters, provider, application, behavior;
\* they are destroyed in the reverse order, each unique_ptr releasing what it owns.
MemberReleases(c) ==
    {LET upto == (IF c.behavior # Null THEN <<"release behavior">> ELSE << >>) \o ra
     IN  IF Len(ra) > 0 /\ ra[Len(ra)] = "abort" THEN upto
         ELSE upto \o (IF c.provider # Null THEN <<"release provider">> ELSE << >>)
        : ra \in ReleaseApplication(c.application)}

\* MLCoupling::~MLCoupling(): the body frees the stored parameters (none are ever
\* stored: set_parameters has no caller), then the members are destroyed.
CouplingDestroy ==
    /\ PipelineInUse
    /\ \E releases \in MemberReleases(coupling) :
          /\ trace' = Operation("~MLCoupling", FALSE, FALSE, releases)
          /\ teardown' = teardown \o releases
    /\ destroyed' = TRUE
    /\ UNCHANGED <<bvars, avars, rvars, mvars, ivars, tvars, build>>

InitPipeline ==
    /\ trace = Operation("none", FALSE, FALSE, << >>)
    /\ teardown = << >>
    /\ destroyed = FALSE

(***************************************************************************)
(* The command-line program (main.cpp)                                     *)
(***************************************************************************)

\* the number of dry-run steps given with --behavior in the runs of the model
MaxDryRun == 2

\* the process has not exited
NoExit == -1

\* the exit status of a process ended by SIGSEGV, as the shell reports it
Segfault == 139

\* What the argument loop leaves behind: help_flag, whether --config-file was given
\* and whether that file can be opened, and max_step (-1 without --behavior).
Arguments ==
    [help_flag : BOOLEAN,
     config_file : {"none", "unreadable", "readable"},
     max_step : {-1, 0, MaxDryRun}]

\* the run reaches create_mlcoupling_from_config
ReachesAssembly(a) == ~a.help_flag /\ a.config_file = "readable"

\* return 0 (main.cpp:61 and main.cpp:125)
Return0 ==
    /\ mainpc' = "exited"
    /\ exit_code' = 0

\* main.cpp:56-62: if (help_flag) { ...; return 0; }
MainHelp ==
    /\ mainpc = "parsed"
    /\ args.help_flag
    /\ Return0
    /\ UNCHANGED <<args, step, queries, nullQueries>>
    /\ UNCHANGED <<bvars, avars, rvars, pvars, ivars, tvars, build>>

\* main.cpp:64, 114-125: without a configuration file nothing is created
MainNoConfigFile ==
    /\ mainpc = "parsed"
    /\ ~args.help_flag
    /\ args.config_file = "none"
    /\ Return0
    /\ UNCHANGED <<args, step, queries, nullQueries>>
    /\ UNCHANGED <<bvars, avars, rvars, pvars, ivars, tvars, build>>

\* create_mlcoupling_from_config_file throws std::runtime_error when the file cannot
\* be opened; main catches it (main.cpp:111-113) and goes on to return 0
MainUnreadableFile ==
    /\ mainpc = "parsed"
    /\ ~args.help_flag
    /\ args.config_file = "unreadable"
    /\ Return0
    /\ UNCHANGED <<args, step, queries, nullQueries>>
    /\ UNCHANGED <<bvars, avars, rvars, pvars, ivars, tvars, build>>

\* main.cpp:69: the call of create_mlcoupling_from_config_file
MainCreate ==
    /\ mainpc = "parsed"
    /\ ReachesAssembly(args)
    /\ mainpc' = "assembling"
    /\ UNCHANGED <<args, step, exit_code, queries, nullQueries>>
    /\ UNCHANGED <<bvars, avars, rvars, pvars, ivars, tvars, build>>

\* the steps of create_mlcoupling_from_config inside main
MainAssembly ==
    /\ mainpc = "assembling"
    /\ \/ StepNormalization
       \/ StepProvider
       \/ StepBehavior
       \/ StepApplication
       \/ ReturnCoupling

\* exit(1) inside create_mlcoupling_from_config ends the process
MainExit1 ==
    /\ mainpc = "assembling"
    /\ outcome = "exit(1)"
    /\ mainpc' = "exited"
    /\ exit_code' = 1
    /\ UNCHANGED <<args, step, queries, nullQueries>>
    /\ UNCHANGED <<bvars, avars, rvars, pvars, ivars, tvars, build>>

\* main.cpp:70-110: create_mlcoupling_from_config returned (a pipeline or nullptr);
\* with --behavior the dry-run loop is entered whatever was returned, the null check
\* of main.cpp:74-75 only prints
MainCreated ==
    /\ mainpc = "assembling"
    /\ pc = "returned"
    /\ IF args.max_step >= 0
       THEN /\ mainpc' = "dryrun"
            /\ step' = 0
            /\ UNCHANGED exit_code
       ELSE /\ Return0
            /\ UNCHANGED step
    /\ UNCHANGED <<args, queries, nullQueries>>
    /\ UNCHANGED <<bvars, avars, rvars, pvars, ivars, tvars, build>>

\* main.cpp:93-106, one iteration: ml_coupling->behavior->should_send_data() and then
\* ml_coupling->behavior->should_perform_inference().  Through a null ml_coupling the
\* first call is undefined: the process is ended by a signal, or the call is made on
\* whatever is found and the loop goes on.
MainDryRunStep ==
    /\ mainpc = "dryrun"
    /\ step < args.max_step
    /\ IF outcome = "nullptr"
       THEN /\ nullQueries' = nullQueries + 1
            /\ \/ /\ mainpc' = "exited"
                  /\ exit_code' = Segfault
                  /\ UNCHANGED step
               \/ /\ step' = step + 1
                  /\ UNCHANGED <<mainpc, exit_code>>
            /\ UNCHANGED queries
            /\ UNCHANGED bvars
       ELSE /\ IF IsPeriodic(coupling.behavior)
               THEN PeriodicShouldPerformInference
               ELSE DefaultShouldPerformInference
            /\ queries' = queries + 2
            /\ step' = step + 1
            /\ UNCHANGED <<mainpc, exit_code, nullQueries>>
    /\ UNCHANGED args
    /\ UNCHANGED <<avars, rvars, pvars, ivars, tvars, build>>

\* main.cpp:107, 124-125: the loop is over, return 0
MainDryRunDone ==
    /\ mainpc = "dryrun"
    /\ step >= args.max_step
    /\ Return0
    /\ UNCHANGED <<args, step, queries, nullQueries>>
    /\ UNCHANGED <<bvars, avars, rvars, pvars, ivars, tvars, build>>

\* main is not running
MainIdle ==
    /\ args = [help_flag |-> FALSE, config_file |-> "none", max_step |-> -1]
    /\ mainpc = "idle"
    /\ step = 0
    /\ exit_code = NoExit
    /\ queries = 0
    /\ nullQueries = 0

(***************************************************************************)
(* Two MLCouplingBehaviorPeriodic objects side by side                     *)
(***************************************************************************)

\* how many calls each of the two objects receives
MaxCalls == 3

TwoConfigs ==
    [inference_interval : 1..2,
     coupled_steps_before_inference : 0..1,
     coupled_steps_stride : {1},
     step_increment_after_inference : {0},
     supports : {TRUE}]
    \cup {TestCfg(TRUE)}

\* a MLCouplingBehaviorPeriodic object after construction
Constructed2(c) == [cfg |-> c, step_count |-> 0, last |-> NoCall, log |-> << >>]

\* the object o after the call of its member function f
Called(o, f) ==
    LET sc == IF f = "should_perform_inference" THEN o.step_count + 1 ELSE o.step_count
        r == IF f = "should_perform_inference"
             THEN BoolCall("periodic", f, ShouldPerformInferenceResult(sc, o.cfg))
             ELSE IF f = "time_step_delta"
             THEN IntCall("periodic", f, TimeStepDeltaResult(o.cfg))
             ELSE BoolCall("periodic", f, ShouldSendDataResult(sc, o.cfg))
    IN  [cfg |-> o.cfg, step_count |-> sc, last |-> r, log |-> Append(o.log, r)]

\* a call on the first object
FirstCall ==
    /\ Len(log) < MaxCalls
    /\ \/ PeriodicShouldPerformInference
       \/ PeriodicTimeStepDelta
       \/ PeriodicShouldSendData
    /\ log' = Append(log, last')
    /\ UNCHANGED second
    /\ UNCHANGED <<avars, rvars, pvars, mvars, tvars, build>>

SecondCall_SharedCounter ==
    /\ Len(second.log) < MaxCalls
    /\ \E f \in {"should_perform_inference", "time_step_delta", "should_send_data"} :
          /\ second' = Called(second, f)
          /\ step_count' = second'.step_count
    /\ UNCHANGED <<cfg, defaultVariant, last, spiCalls>>
    /\ UNCHANGED log
    /\ UNCHANGED <<avars, rvars, pvars, mvars, tvars, build>>

\* a call on the second object: step_count is a non-static data member
SecondCall ==
    /\ Len(second.log) < MaxCalls
    /\ \E f \in {"should_perform_inference", "time_step_delta", "should_send_data"} : second' = Called(second, f)
    /\ UNCHANGED bvars
    /\ UNCHANGED log
    /\ UNCHANGED <<avars, rvars, pvars, mvars, tvars, build>>

\* no second object
InstancesIdle ==
    /\ second = Constructed2(TestCfg(TRUE))
    /\ log = << >>

(***************************************************************************)
(* The driver loop of test.cpp                                             *)
(***************************************************************************)

\* for (int step = 1; step <= 100; ++step)
TestSteps == 100

\* bool perform_inference = behavior.should_perform_inference();
TestShouldPerformInference ==
    /\ tpc = "should_perform_inference"
    /\ sim_step <= TestSteps
    /\ PeriodicShouldPerformInference
    /\ local_perform_inference' = last'.retB
    /\ inferences' = IF last'.retB
                     THEN Append(inferences, [call |-> spiCalls', step |-> sim_step])
                     ELSE inferences
    /\ tpc' = "time_step_delta"
    /\ UNCHANGED <<sim_step, local_time_step_delta>>
    /\ UNCHANGED <<avars, rvars, pvars, mvars, ivars, build>>

\* int time_step_delta = behavior.time_step_delta();
TestTimeStepDelta ==
    /\ tpc = "time_step_delta"
    /\ PeriodicTimeStepDelta
    /\ local_time_step_delta' = last'.retI
    /\ tpc' = "should_send_data"
    /\ UNCHANGED <<sim_step, local_perform_inference, inferences>>
    /\ UNCHANGED <<avars, rvars, pvars, mvars, ivars, build>>

\* bool send_data = behavior.should_send_data();
TestShouldSendData ==
    /\ tpc = "should_send_data"
    /\ PeriodicShouldSendData
    /\ tpc' = "advance"
    /\ UNCHANGED <<sim_step, local_perform_inference, local_time_step_delta, inferences>>
    /\ UNCHANGED <<avars, rvars, pvars, mvars, ivars, build>>

TestAdvance_CountsSkippedSteps ==
    /\ tpc = "advance"
    /\ sim_step' = (IF local_perform_inference THEN sim_step + local_time_step_delta ELSE sim_step) + 1
    /\ step_count' = IF local_perform_inference THEN step_count + local_time_step_delta ELSE step_count
    /\ tpc' = "should_perform_inference"
    /\ UNCHANGED <<local_perform_inference, local_time_step_delta, inferences>>
    /\ UNCHANGED <<cfg, defaultVariant, last, spiCalls>>
    /\ UNCHANGED <<avars, rvars, pvars, mvars, ivars, build>>

\* if (perform_inference) { step += time_step_delta; } and the ++step of the loop
TestAdvance ==
    /\ tpc = "advance"
    /\ sim_step' = (IF local_perform_inference THEN sim_step + local_time_step_delta ELSE sim_step) + 1
    /\ tpc' = "should_perform_inference"
    /\ UNCHANGED <<local_perform_inference, local_time_step_delta, inferences>>
    /\ UNCHANGED bvars
    /\ UNCHANGED <<avars, rvars, pvars, mvars, ivars, build>>

\* the loop of test.cpp is not running
TestIdle ==
    /\ tpc = "idle"
    /\ sim_step = 1
    /\ local_perform_inference = FALSE
    /\ local_time_step_delta = 0
    /\ inferences = << >>

ExtensionsIdle == InitPipeline /\ MainIdle /\ InstancesIdle /\ TestIdle /\ build = "wraps"

(***************************************************************************)
(* Specifications                                                          *)
(***************************************************************************)

\* The scheduling behaviors under arbitrary interleavings of their queries
Init == InitBehavior /\ AssemblyIdle /\ RegistryIdle /\ ExtensionsIdle

Next ==
    \/ PeriodicShouldPerformInference /\ UNCHANGED <<avars, rvars, evars>>
    \/ PeriodicTimeStepDelta /\ UNCHANGED <<avars, rvars, evars>>
    \/ PeriodicShouldSendData /\ UNCHANGED <<avars, rvars, evars>>
    \/ DefaultShouldPerformInference /\ UNCHANGED <<avars, rvars, evars>>
    \/ DefaultTimeStepDelta /\ UNCHANGED <<avars, rvars, evars>>
    \/ DefaultShouldSendData /\ UNCHANGED <<avars, rvars, evars>>

Spec == Init /\ [][Next]_vars

\* One run of create_mlcoupling_from_config on every configuration of Configs
InitA == InitAssembly /\ BehaviorIdle /\ RegistryIdle /\ ExtensionsIdle

NextA ==
    \/ StepNormalization
    \/ StepProvider
    \/ StepBehavior
    \/ StepApplication
    \/ ReturnCoupling

SpecAssembly == InitA /\ [][NextA]_vars

\* One call of a registry function on every argument of Requests
InitR == InitRegistry /\ BehaviorIdle /\ AssemblyIdle /\ ExtensionsIdle

NextR ==
    \/ ResolveCategoryClassName
    \/ ResolveClassName
    \/ ResolveResolved
    \/ ResolveCategoryToBaseClass
    \/ ConfigParamCast
    \/ CreateInstanceCall

SpecRegistry == InitR /\ [][NextR]_vars

\* One run of create_mlcoupling_from_config and then the use of the pipeline it returned
InitP ==
    /\ InitAssembly /\ BehaviorIdle /\ RegistryIdle /\ InitPipeline /\ MainIdle
    /\ InstancesIdle /\ TestIdle /\ build = "wraps"

NextP ==
    \/ NextA
    \/ CouplingMlStep
    \/ ApplicationStep
    \/ CouplingFinalize
    \/ CouplingDestroy

SpecPipeline == InitP /\ [][NextP]_vars

\* One run of main, from the state after its argument loop (main.cpp:35-54), on every
\* argument list of Arguments and every configuration of Configs
InitM ==
    /\ args \in Arguments
    /\ mainpc = "parsed"
    /\ step = 0
    /\ exit_code = NoExit
    /\ queries = 0
    /\ nullQueries = 0
    /\ IF ReachesAssembly(args) THEN InitAssembly ELSE AssemblyIdle
    /\ BehaviorIdle /\ RegistryIdle /\ InitPipeline
    /\ InstancesIdle /\ TestIdle /\ build = "wraps"

NextM ==
    \/ MainHelp
    \/ MainNoConfigFile
    \/ MainUnreadableFile
    \/ MainCreate
    \/ MainAssembly
    \/ MainExit1
    \/ MainCreated
    \/ MainDryRunStep
    \/ MainDryRunDone

SpecMain == InitM /\ [][NextM]_vars

\* Two periodic objects under arbitrary interleavings of their calls
InitI ==
    /\ cfg \in TwoConfigs
    /\ step_count = 0
    /\ defaultVariant = "plain"
    /\ last = NoCall
    /\ spiCalls = 0
    /\ second \in {Constructed2(c) : c \in TwoConfigs}
    /\ log = << >>
    /\ AssemblyIdle /\ RegistryIdle /\ InitPipeline /\ MainIdle /\ TestIdle /\ build = "wraps"

NextI ==
    \/ FirstCall
    \/ SecondCall

SpecInstances == InitI /\ [][NextI]_vars

\* The run of test.cpp: MLCouplingBehaviorPeriodic behavior(10, 5, 1, 24); step = 1
InitT ==
    /\ cfg \in {TestCfg(sup) : sup \in BOOLEAN}
    /\ step_count = 0
    /\ defaultVariant = "plain"
    /\ last = NoCall
    /\ spiCalls = 0
    /\ tpc = "should_perform_inference"
    /\ sim_step = 1
    /\ local_perform_inference = FALSE
    /\ local_time_step_delta = 0
    /\ inferences = << >>
    /\ AssemblyIdle /\ RegistryIdle /\ InitPipeline /\ MainIdle /\ InstancesIdle /\ build = "wraps"

NextT ==
    \/ TestShouldPerformInference
    \/ TestTimeStepDelta
    \/ TestShouldSendData
    \/ TestAdvance

SpecTest == InitT /\ [][NextT]_vars

\* The scheduling behaviors on configurations over the whole int range, for every build
InitW ==
    /\ cfg \in WideConfigs
    /\ step_count = 0
    /\ defaultVariant \in DefaultVariants
    /\ last = NoCall
    /\ spiCalls = 0
    /\ build \in {"wraps", "widens"}
    /\ AssemblyIdle /\ RegistryIdle /\ InitPipeline /\ MainIdle /\ InstancesIdle /\ TestIdle

SpecWidth == InitW /\ [][Next]_vars

\* The scheduling behaviors with a driver that keeps asking whether to infer (the
\* loop of the simulation calls should_perform_inference() once per step); the two
\* fields should_perform_inference() does not read are fixed.
InitL ==
    /\ cfg \in {c \in PeriodicConfigs :
                   /\ c.supports
                   /\ c.step_increment_after_inference = 0 \/ c = TestCfg(TRUE)}
    /\ step_count = 0
    /\ defaultVariant = "plain"
    /\ last = NoCall
    /\ spiCalls = 0
    /\ AssemblyIdle /\ RegistryIdle /\ ExtensionsIdle

SpecLive ==
    /\ InitL /\ [][Next]_vars
    /\ WF_vars(PeriodicShouldPerformInference /\ UNCHANGED <<avars, rvars, evars>>)

(***************************************************************************)
(* Properties of the scheduling behaviors (specification Spec)             *)
(***************************************************************************)

PeriodicCall(f) == last.obj = "periodic" /\ last.op = f
DefaultCall(f) == last.obj = "default" /\ last.op = f

IsMultipleOf(n, d) == \E k \in 0..MaxSteps : n = k * d

C1_Returned ==
    PeriodicCall("should_perform_inference") =>
        /\ last.retB = (/\ IsMultipleOf(step_count, cfg.inference_interval)
                        /\ step_count >= cfg.coupled_steps_before_inference * cfg.coupled_steps_stride)
        /\ (\E sup \in BOOLEAN : cfg = TestCfg(sup)) =>
               last.retB = (\E k \in 1..MaxSteps : spiCalls = 10 * k)

\* C1: starting from step_count = 0, every should_perform_inference() call on the
\* periodic policy increments step_count by exactly 1 and returns true iff the new
\* step_count is a multiple of inference_interval and at least
\* coupled_steps_before_inference * coupled_steps_stride; with (10, 5, 1, 24) the
\* calls 10, 20, 30, ... return true and all other calls return false.
C1_Theorem ==
    /\ [](spiCalls = 0 => step_count = 0)
    /\ []C1_Returned
    /\ [][spiCalls' # spiCalls => (spiCalls' = spiCalls + 1 /\ step_count' = step_count + 1)]_vars

C1_Witness ==
    /\ PeriodicCall("should_perform_inference")
    /\ cfg = TestCfg(TRUE)
    /\ spiCalls = 20
    /\ last.retB

\* steps from step_count to the next multiple of inference_interval
StepsUntilNextInference == cfg.inference_interval - (step_count % cfg.inference_interval)

\* C2: should_send_data() of the periodic policy (on an application that supports
\* coupling without inference, with the window fitting into one period) returns
\* true exactly at the step counts lying k * coupled_steps_stride steps before
\* the next inference step, k = 1..coupled_steps_before_inference.
C2_Claim ==
    (/\ PeriodicCall("should_send_data")
     /\ cfg.supports
     /\ cfg.coupled_steps_before_inference * cfg.coupled_steps_stride <= cfg.inference_interval)
    => last.retB = (\E k \in 1..cfg.coupled_steps_before_inference :
                        StepsUntilNextInference = k * cfg.coupled_steps_stride)

\* C3: time_step_delta() of the periodic policy returns step_increment_after_inference
\* at every call, whatever was queried before (24 for the configuration 10, 5, 1, 24).
C3_Theorem ==
    PeriodicCall("time_step_delta") =>
        /\ last.retI = cfg.step_increment_after_inference
        /\ (\E sup \in BOOLEAN : cfg = TestCfg(sup)) => last.retI = 24

C3_Witness ==
    /\ PeriodicCall("time_step_delta")
    /\ cfg = TestCfg(FALSE)
    /\ step_count = 11
    /\ last.retI = 24

\* C4: the default policy answers should_perform_inference() with true,
\* time_step_delta() with 0 and should_send_data() with true after any sequence of
\* calls, whatever the application capability is.
C4_Claim ==
    /\ DefaultCall("should_perform_inference") => last.retB
    /\ DefaultCall("time_step_delta") => last.retI = 0
    /\ DefaultCall("should_send_data") => last.retB

\* C5: step_count of the periodic policy is changed by should_perform_inference()
\* only: it always equals the number of should_perform_inference() calls, the
\* other queries leave it and the configuration unchanged, and a further call is
\* enabled in every state.
C5_Theorem ==
    /\ [](step_count = spiCalls)
    /\ [][spiCalls' = spiCalls => step_count' = step_count]_vars
    /\ [][cfg' = cfg]_vars
    /\ [](ENABLED PeriodicTimeStepDelta /\ ENABLED PeriodicShouldSendData)
    /\ [](step_count < MaxSteps => ENABLED PeriodicShouldPerformInference)

C5_Witness ==
    /\ PeriodicCall("should_send_data")
    /\ step_count = 3
    /\ spiCalls = 3

(***************************************************************************)
(* Properties of the assembly (specification SpecAssembly)                 *)
(***************************************************************************)

Terminated == pc \in {"returned", "exited"}

Range(seq) == {seq[i] : i \in 1..Len(seq)}

RegisteredProvider(name) ==
    resolve_provider_class_name(name) \in Range(get_subclasses("MLCouplingProvider"))

RegisteredApplication(name) ==
    resolve_application_class_name(name) \in Range(get_subclasses("MLCouplingApplication"))

\* C6: a configuration with only a provider and an application section, each
\* naming a registered class, assembles into a Pipeline with the default policy.
C6_Claim ==
    (/\ Terminated
     /\ config.normalization = Absent
     /\ config.behavior = Absent
     /\ RegisteredProvider(config.provider.class)
     /\ config.provider.params = EmptyParams
     /\ RegisteredApplication(config.application.class)
     /\ config.application.params = EmptyParams)
    => /\ outcome = "pipeline"
       /\ coupling.behavior.cls = "MLCouplingBehaviorDefault"

\* C7: with no provider section the assembly fails with ConfigSectionMissing and
\* produces no Pipeline, whatever the other sections contain.
C7_Claim ==
    (Terminated /\ config.provider.class = "")
    => /\ outcome = "nullptr"
       /\ error = "ConfigSectionMissing"
       /\ coupling = NoPipeline

\* C8: a Pipeline is returned only if a Provider and an Application instance were
\* constructed, and a returned Pipeline holds a non-null provider, application and
\* behavior; every other run returns no Pipeline object.
C8_Theorem ==
    /\ outcome = "pipeline" =>
          /\ provider # Null /\ application # Null
          /\ resolve_provider_class_name(config.provider.class) \in DOMAIN module_instances
          /\ resolve_application_class_name(config.application.class) \in DOMAIN module_instances
          /\ coupling.provider = provider /\ coupling.provider # Null
          /\ coupling.application = application /\ coupling.application # Null
          /\ coupling.behavior # Null
    /\ outcome # "pipeline" => coupling = NoPipeline

C8_Witness ==
    /\ outcome = "pipeline"
    /\ coupling.provider.cls = "MLCouplingProviderSmartsim"
    /\ coupling.application.cls = "MLCouplingApplicationTurbulenceClosure"
    /\ coupling.behavior.cls = "MLCouplingBehaviorPeriodic"

\* the application class of the configuration declares a dependency slot on Normalization
DeclaresNormalizationSlot ==
    \E i \in 1..Len(get_constructor_dependencies(resolve_application_class_name(config.application.class))) :
        get_constructor_dependencies(resolve_application_class_name(config.application.class))[i]
            = <<"MLCouplingNormalization", "normalization">>

\* C9: a class with a dependency slot on Normalization is constructed, with the
\* slot holding the registered normalization instance, when a normalization was
\* registered before it, and fails with MissingDependency when none was configured.
C9_Claim ==
    (/\ "application" \in Range(attempts)
     /\ DeclaresNormalizationSlot
     /\ config.application.params = EmptyParams)
    => IF config.normalization.class # ""
       THEN /\ application # Null
            /\ application.slot = normalization.cls
       ELSE /\ application = Null
            /\ error = "MissingDependency"

Rank(c) ==
    IF c = "normalization" THEN 1
    ELSE IF c = "provider" THEN 2
    ELSE IF c = "behavior" THEN 3
    ELSE 4

\* C10: the construction attempts of one run come in the order Normalization,
\* Provider, Behavior, Application, and an attempt starts only after every earlier
\* category that the configuration names has been attempted.
C10_Theorem ==
    /\ \A i, j \in 1..Len(attempts) : i < j => Rank(attempts[i]) < Rank(attempts[j])
    /\ \A i \in 1..Len(attempts) :
          \A c \in {"normalization", "provider", "behavior", "application"} :
              (Rank(c) < Rank(attempts[i]) /\ config[c].class # "")
                  => \E h \in 1..(i - 1) : attempts[h] = c

C10_Witness ==
    attempts = <<"normalization", "provider", "behavior", "application">>

\* the dispatcher gives no instance for the configured section of a category
FailsToConstruct(category) ==
    /\ config[category].class # ""
    /\ category \in Range(attempts)
    /\ CreateInstance(category, config[category].class, config[category].params) = {Null}

\* C11: a construction failure in an optional category does not abort the assembly:
\* after a failed Behavior construction the default policy is in place and the run
\* goes on, and after a failed Normalization construction the run goes on without
\* a normalization component.
C11_Claim ==
    /\ FailsToConstruct("behavior") =>
          /\ outcome # "exit(1)"
          /\ behavior = Instance("MLCouplingBehaviorDefault", 1, "")
    /\ FailsToConstruct("normalization") =>
          /\ outcome # "exit(1)"
          /\ normalization = Null

CanonicalClasses == UNION {DispatchedClasses(c) : c \in Categories}

AllAliases ==
    DOMAIN provider_lookup \cup DOMAIN normalization_lookup
    \cup DOMAIN behavior_lookup \cup DOMAIN application_lookup

\* C12: at every point of a run every entry of the instance table refers to an
\* instance whose construction succeeded (one of the non-null local pointers) and
\* is keyed by the canonical class name of that instance, also when the
\* configuration named the class by an alias.
C12_Theorem ==
    \A k \in DOMAIN module_instances :
        /\ module_instances[k].txt # Null.cls
        /\ module_instances[k].txt = k
        /\ k \in CanonicalClasses
        /\ \E made \in {normalization, provider, behavior, application} :
              made # Null /\ made.cls = k

C12_Witness ==
    /\ config.normalization.class = "minmax"
    /\ config.provider.class = "phydll"
    /\ config.behavior.class = "periodic"
    /\ DOMAIN module_instances =
          {"MLCouplingMinMaxNormalization", "MLCouplingProviderPhydll",
           "MLCouplingBehaviorPeriodic", "MLCouplingApplicationTurbulenceClosure"}


\* the section of a category names a class that is neither a canonical class
\* name nor an alias of that category
UnknownClassIn(category) ==
    /\ config[category].class # ""
    /\ config[category].class \notin DispatchedClasses(category)
    /\ config[category].class \notin
          DOMAIN (IF category = "provider" THEN provider_lookup
                  ELSE IF category = "normalization" THEN normalization_lookup
                  ELSE IF category = "behavior" THEN behavior_lookup
                  ELSE application_lookup)

\* C17: a class name that is neither a canonical name nor an alias is returned
\* unchanged by resolve; the dispatcher then gives no instance (a construction
\* failure), nothing is registered for it, and for Provider and Application the
\* run ends there without a Pipeline.
C17_Theorem ==
    /\ \A c \in Categories : UnknownClassIn(c) => ResolveIn(c, config[c].class) = config[c].class
    /\ (UnknownClassIn("provider") /\ "provider" \in Range(attempts)) =>
          /\ provider = Null
          /\ error = "ConstructionFailure"
          /\ outcome = "exit(1)"
          /\ coupling = NoPipeline
          /\ config.provider.class \notin DOMAIN module_instances
          /\ ~ENABLED NextA
    /\ (UnknownClassIn("application") /\ "application" \in Range(attempts)) =>
          /\ application = Null
          /\ error = "ConstructionFailure"
          /\ outcome = "nullptr"
          /\ coupling = NoPipeline
          /\ config.application.class \notin DOMAIN module_instances
          /\ ~ENABLED NextA

C17_Witness ==
    /\ config.application.class = "NoSuchApplication"
    /\ "application" \in Range(attempts)
    /\ provider # Null
    /\ application = Null
    /\ outcome = "nullptr"

\* the local pointer of a category and the parameters its section is constructed with
LocalOf(category) ==
    IF category = "normalization" THEN normalization
    ELSE IF category = "provider" THEN provider
    ELSE IF category = "behavior" THEN behavior
    ELSE application

ParamsOf(category) ==
    IF category = "application"
    THEN "input_data" :> ObjectRef(0, "input_data")
         @@ "output_data" :> ObjectRef(0, "output_data") @@ config.application.params
    ELSE config[category].params

\* success or failure, and the diagnostic, of a construction
Verdict(inst, err) == [built |-> inst # Null, err |-> IF inst # Null THEN "none" ELSE err]

\* C20: the class name is resolved before the dependency slots are, so a section
\* that names its class by an alias is constructed exactly as the section naming
\* the canonical class would be: same slots filled, same success or failure and
\* diagnostic, same instance-table key.
C20_Claim ==
    \A c \in Categories :
        (c \in Range(attempts) /\ config[c].class \in AllAliases) =>
            /\ Verdict(LocalOf(c), error) \in
                  {Verdict(r.inst, r.err) :
                      r \in create_mlcoupling_object(c, ResolveIn(c, config[c].class),
                                                     ParamsOf(c), module_instances)}
            /\ LocalOf(c) # Null => LocalOf(c).cls \in DOMAIN module_instances

(***************************************************************************)
(* Properties of the registry functions (specification SpecRegistry)       *)
(***************************************************************************)

Dispatched == call.op = "create_instance" /\ call.done

\* the constructors of the class a dispatcher call is for (none for a class the
\* dispatcher has no branch for)
CalledSignatures ==
    IF ResolveIn(call.category, call.name) \in DispatchedClasses(call.category)
    THEN get_constructor_signatures(ResolveIn(call.category, call.name))
    ELSE << >>

\* the int parameters of a signature that the call supplies as Text
TextForInt(sig) ==
    {j \in 1..Len(sig) : /\ sig[j].ctype = "int"
                         /\ sig[j].name \in DOMAIN call.parameter
                         /\ call.parameter[sig[j].name].tag = 3}

AllNamesSupplied(sig) == \A j \in 1..Len(sig) : sig[j].name \in DOMAIN call.parameter

\* C13: a Text value supplied for an int constructor parameter makes that
\* signature fail (with the marshaller's type-mismatch exception once the
\* signature's arity fits and all its names are supplied), the instance is never
\* built by that signature, and when no other signature constructs the
\* dispatcher returns no instance.
C13_Theorem ==
    Dispatched =>
        \A i \in 1..Len(CalledSignatures) :
            TextForInt(CalledSignatures[i]) # {} =>
                /\ i <= Len(call.trace) => call.trace[i] \in {"size", "out_of_range", "runtime_error"}
                /\ (/\ i <= Len(call.trace)
                    /\ Size(call.parameter) = Len(CalledSignatures[i])
                    /\ AllNamesSupplied(CalledSignatures[i])) => call.trace[i] = "runtime_error"
                /\ call.inst.sig # i
                /\ (\A k \in 1..Len(call.trace) : k # i => call.trace[k] # "constructed")
                       => call.inst = Null

C13_Witness ==
    /\ Dispatched
    /\ call.category = "behavior"
    /\ call.name = "periodic"
    /\ DOMAIN call.parameter = PeriodicNames
    /\ call.parameter["coupled_steps_stride"] = TextValue("x")
    /\ \A n \in PeriodicNames \ {"coupled_steps_stride"} : call.parameter[n] = IntegerValue(1)
    /\ call.trace = <<"runtime_error">>
    /\ call.inst = Null


\* the family of a configuration literal's tag and of a cast target
TagFamily(tag) ==
    IF tag \in {1, 2} THEN "numeric" ELSE IF tag = 3 THEN "text" ELSE IF tag = 4 THEN "boolean" ELSE "none"

TargetFamily(target) ==
    IF target \in {"int", "float"} THEN "numeric" ELSE "text"

\* C14: the marshaller never converts across type families: a cast of an Integer,
\* Float, Text or Boolean value returns only if the value's family is the
\* target's family (Integer and Float both being numeric).
C14_Claim ==
    (/\ call.op = "config_param_cast"
     /\ call.done
     /\ call.param.tag \in {1, 2, 3, 4}
     /\ ~call.threw)
    => TagFamily(call.param.tag) = TargetFamily(call.target)

\* every parameter name some constructor of the called class declares
DeclaredNames ==
    UNION {{sig[j].name : j \in 1..Len(sig)} : sig \in Range(CalledSignatures)}

\* C15: construction fails whenever the supplied parameter set holds a name that
\* no constructor signature of the class declares: the unknown name is never
\* ignored, also for a class whose parameters all have defaults.
C15_Claim ==
    (/\ Dispatched
     /\ ResolveIn(call.category, call.name) \in DispatchedClasses(call.category)
     /\ \E n \in DOMAIN call.parameter : n \notin DeclaredNames)
    => call.inst = Null

\* a value that the marshaller rejects for a constructor parameter of type ctype
FailsMarshalling(v, ctype) ==
    \/ ctype \in {"int", "In", "Out"} /\ v.tag \notin {0, 1, 2, 4}
    \/ ctype = "std::string" /\ v.tag # 3

\* a required parameter of the signature is absent, or a supplied one fails marshalling
MustBeSkipped(sig) ==
    \E j \in 1..Len(sig) :
        \/ ~sig[j].optional /\ sig[j].name \notin DOMAIN call.parameter
        \/ /\ sig[j].name \in DOMAIN call.parameter
           /\ FailsMarshalling(call.parameter[sig[j].name], sig[j].ctype)

\* C16: the dispatcher tries the signatures of a class in declaration order; a
\* signature with an absent required parameter or a value that fails marshalling
\* is skipped and the next one is tried; no instance is returned only after every
\* signature was tried; a returned instance is the one built by the first
\* signature that constructs, and a failed call gives none.
C16_Theorem ==
    Dispatched =>
        /\ Len(call.trace) <= Len(CalledSignatures)
        /\ \A i \in 1..Len(call.trace) :
              /\ i < Len(call.trace) => call.trace[i] # "constructed"
              /\ MustBeSkipped(CalledSignatures[i]) =>
                    /\ call.trace[i] # "constructed"
                    /\ i < Len(CalledSignatures) => Len(call.trace) > i
        /\ call.inst = Null =>
              /\ Len(call.trace) = Len(CalledSignatures)
              /\ \A i \in 1..Len(call.trace) : call.trace[i] # "constructed"
        /\ call.inst # Null =>
              /\ call.trace # << >>
              /\ call.trace[Len(call.trace)] = "constructed"
              /\ call.inst.sig = Len(call.trace)
              /\ call.inst.cls = ResolveIn(call.category, call.name)

C16_Witness ==
    /\ Dispatched
    /\ call.category = "normalization"
    /\ call.name = "min-max"
    /\ DOMAIN call.parameter = {"input_data", "input_data_size", "output_data", "output_data_size"}
    /\ call.trace = <<"out_of_range", "constructed">>
    /\ call.inst = Instance("MLCouplingMinMaxNormalization", 2, "")

Resolved == call.op \in {"resolve", "resolve_class_name"} /\ call.done

\* C18: alias resolution is idempotent: resolving the name a resolve call returned
\* returns that name again (per category and across categories), and a canonical
\* class name resolves to itself.
C18_Theorem ==
    /\ (Resolved /\ call.again) => call.text = call.name
    /\ (Resolved /\ call.name \in CanonicalClasses) => call.text = call.name

C18_Witness ==
    /\ Resolved
    /\ call.again
    /\ call.category = "provider"
    /\ call.given = "SmartSim"
    /\ call.name = "MLCouplingProviderSmartsim"
    /\ call.text = "MLCouplingProviderSmartsim"

\* C19: the registry lookups are total pass-through functions: every call returns,
\* and a name that has no entry in the table it is looked up in (the aliases of
\* the category, the aliases of all categories, the category names) is returned
\* unchanged.
C19_Theorem ==
    /\ Pending("resolve") => ENABLED ResolveCategoryClassName
    /\ Pending("resolve_class_name") => ENABLED ResolveClassName
    /\ Pending("resolve_category_to_base_class") => ENABLED ResolveCategoryToBaseClass
    /\ call.op \in {"resolve", "resolve_class_name", "resolve_category_to_base_class"} => ~call.threw
    /\ (call.op = "resolve" /\ call.done) =>
          (call.name \notin DOMAIN (IF call.category = "provider" THEN provider_lookup
                                    ELSE IF call.category = "normalization" THEN normalization_lookup
                                    ELSE IF call.category = "behavior" THEN behavior_lookup
                                    ELSE application_lookup)
              => call.text = call.name)
    /\ (call.op = "resolve_class_name" /\ call.done) =>
          (call.name \notin AllAliases => call.text = call.name)
    /\ (call.op = "resolve_category_to_base_class" /\ call.done) =>
          (call.name \notin DOMAIN category_lookup => call.text = call.name)

C19_Witness ==
    /\ call.op = "resolve_category_to_base_class"
    /\ call.done
    /\ call.name = "Provider"
    /\ call.text = "Provider"

(***************************************************************************)
(* Properties of the pipeline (specification SpecPipeline)                 *)
(***************************************************************************)

Releases == SelectSeq(teardown, LAMBDA e : e \in {"release application", "release behavior",
                                                 "release provider", "release normalization"})

\* the place of an instance in the order Application, Behavior, Provider, Normalization
ReleaseRank(e) ==
    IF e = "release application" THEN 1
    ELSE IF e = "release behavior" THEN 2
    ELSE IF e = "release provider" THEN 3
    ELSE 4

HookOf(e) ==
    IF e = "release application" THEN "application.finalize"
    ELSE IF e = "release behavior" THEN "behavior.finalize"
    ELSE IF e = "release provider" THEN "provider.finalize"
    ELSE "normalization.finalize"

\* C21: once the pipeline is torn down, its instances were released in the order
\* Application, Behavior, Provider, Normalization, and the finalize hook of every
\* released instance ran before that instance was released.
C21_Claim ==
    destroyed =>
        /\ \A i, j \in 1..Len(Releases) :
              i < j => ReleaseRank(Releases[i]) < ReleaseRank(Releases[j])
        /\ \A i \in 1..Len(teardown) :
              teardown[i] \in Range(Releases) =>
                  \E k \in 1..(i - 1) : teardown[k] = HookOf(teardown[i])

PositionIn(seq, e) == CHOOSE i \in 1..Len(seq) : seq[i] = e

AssemblyFailed == outcome \in {"exit(1)", "nullptr"}

\* C22: the process exits with 0 when the help flag was given or the dry-run ran to
\* its end on an assembled pipeline, and with a non-zero code whenever the assembly
\* failed (a mandatory section missing or a construction failed).
C22_Claim ==
    mainpc = "exited" =>
        /\ args.help_flag => exit_code = 0
        /\ (outcome = "pipeline" /\ args.max_step >= 0) => exit_code = 0
        /\ AssemblyFailed => exit_code # 0

\* C30: the dry-run makes no scheduling query through a null pipeline pointer.
C30_Claim == nullQueries = 0

(***************************************************************************)
(* Properties of two periodic objects (specification SpecInstances)        *)
(***************************************************************************)

QueriesOf(l) == [i \in 1..Len(l) |-> l[i].op]

\* C23: step_count belongs to the object: a call on one of two periodic objects
\* leaves the step_count and the results of the other as they are, and two objects
\* built with the same configuration that received the same sequence of calls
\* returned the same results, however their calls were interleaved.
C23_Theorem ==
    /\ [](/\ second.step_count
               = Len(SelectSeq(second.log, LAMBDA r : r.op = "should_perform_inference"))
          /\ step_count = Len(SelectSeq(log, LAMBDA r : r.op = "should_perform_inference"))
          /\ (cfg = second.cfg /\ QueriesOf(log) = QueriesOf(second.log)) => log = second.log)
    /\ [][/\ log' # log => second' = second
          /\ second' # second => UNCHANGED <<step_count, last, log>>]_vars

C23_Witness ==
    /\ cfg = second.cfg
    /\ cfg.inference_interval = 2
    /\ Len(log) = 3
    /\ QueriesOf(log) = QueriesOf(second.log)
    /\ step_count = 2
    /\ log[3].op = "should_perform_inference"
    /\ log[3].retB

(***************************************************************************)
(* Properties of the loop of test.cpp (specification SpecTest)             *)
(***************************************************************************)

FirstInferenceCall(c) ==
    LET window == c.coupled_steps_before_inference * c.coupled_steps_stride
        interval == c.inference_interval
    IN  IF window <= interval THEN interval
        ELSE ((window + interval - 1) \div interval) * interval

\* the number of the first call after call n that returns true
NextInferenceCall(n, c) ==
    IF n < FirstInferenceCall(c) THEN FirstInferenceCall(c)
    ELSE (n \div c.inference_interval + 1) * c.inference_interval

\* C24: the calls of should_perform_inference() that return true are the call
\* FirstInferenceCall and every inference_interval-th call after it, and no others;
\* and whatever the number of calls made so far, a later call that returns true is
\* reached (as long as it lies within the MaxSteps calls of the model).
C24_Theorem ==
    /\ [](PeriodicCall("should_perform_inference") =>
            (last.retB <=> /\ spiCalls >= FirstInferenceCall(cfg)
                           /\ (spiCalls - FirstInferenceCall(cfg)) % cfg.inference_interval = 0))
    /\ \A n \in 0..MaxSteps :
          (spiCalls = n /\ NextInferenceCall(n, cfg) <= MaxSteps)
              ~> (/\ PeriodicCall("should_perform_inference")
                  /\ last.retB
                  /\ spiCalls = NextInferenceCall(n, cfg))

C24_Witness ==
    /\ cfg.inference_interval = 3
    /\ cfg.coupled_steps_before_inference = 2
    /\ cfg.coupled_steps_stride = 2
    /\ PeriodicCall("should_perform_inference")
    /\ last.retB
    /\ spiCalls = 6

(***************************************************************************)
(* Properties of the periodic policy over the int range (SpecWidth)        *)
(***************************************************************************)

\* x >= a * b for the mathematical product of a, b >= 0
AtLeastProduct(x, a, b) == a = 0 \/ x \div a >= b

\* C29: the results of should_perform_inference() and should_send_data() are the ones
\* the mathematical product coupled_steps_before_inference * coupled_steps_stride
\* gives as threshold, for every pair of int values of the two fields.
C29_Claim ==
    LET a == cfg.coupled_steps_before_inference
        b == cfg.coupled_steps_stride
        until == cfg.inference_interval - (step_count % cfg.inference_interval)
    IN  /\ PeriodicCall("should_perform_inference") =>
              (last.retB <=> /\ step_count % cfg.inference_interval = 0
                             /\ AtLeastProduct(step_count, a, b))
        /\ PeriodicCall("should_send_data") =>
              (last.retB <=> /\ cfg.supports
                             /\ ~AtLeastProduct(until, a, b)
                             /\ until % b = 0)

(***************************************************************************)
(* Properties of the Smartsim constructor call (specification SpecRegistry) *)
(***************************************************************************)

SmartsimNames == {"host"} \cup SmartsimIntNames

\* a dispatcher call for the Smartsim provider with some of its six parameters, a
\* Text for host and numeric values (Integer or Float) for the others
SmartsimCallWithMatchingFamilies ==
    /\ call.op = "create_instance"
    /\ call.done
    /\ call.category = "provider"
    /\ ResolveIn(call.category, call.name) = "MLCouplingProviderSmartsim"
    /\ DOMAIN call.parameter \subseteq SmartsimNames
    /\ \A n \in DOMAIN call.parameter :
          TagFamily(call.parameter[n].tag) = (IF n = "host" THEN "text" ELSE "numeric")

SmartsimSignature == get_constructor_signatures("MLCouplingProviderSmartsim")[1]

\* the number or text of v is the number or text of w
SameValue(v, w) == v.num = w.num /\ v.half = w.half /\ v.txt = w.txt

\* C26 as stated: the Smartsim provider is constructed from every subset of its six
\* parameters with values of matching families, every parameter not supplied is
\* passed as its default (localhost, 6379, 1, 1, 1, 0) and every supplied value is
\* passed unchanged.
C26_Claim ==
    SmartsimCallWithMatchingFamilies =>
        /\ call.inst # Null
        /\ Len(call.args) = 6
        /\ \A i \in 1..6 :
              LET n == SmartsimSignature[i].name
              IN  IF n \in DOMAIN call.parameter
                  THEN SameValue(call.args[i], call.parameter[n])
                  ELSE call.args[i] = <<TextValue("localhost"), IntegerValue(6379), IntegerValue(1),
                                        IntegerValue(1), IntegerValue(1), IntegerValue(0)>>[i]

\* C26 (amended): as above, except that a supplied value is passed converted to the
\* type of the parameter: a Text and an Integer unchanged, a Float without its
\* fraction (truncated toward zero).
C26_Theorem ==
    SmartsimCallWithMatchingFamilies =>
        /\ call.inst # Null
        /\ Len(call.args) = 6
        /\ \A i \in 1..6 :
              LET n == SmartsimSignature[i].name
              IN  IF n \in DOMAIN call.parameter
                  THEN LET v == call.parameter[n]
                       IN  /\ call.args[i].txt = v.txt
                           /\ ~call.args[i].half
                           /\ call.args[i].num = (IF v.half /\ v.num < 0 THEN v.num + 1 ELSE v.num)
                  ELSE call.args[i] = <<TextValue("localhost"), IntegerValue(6379), IntegerValue(1),
                                        IntegerValue(1), IntegerValue(1), IntegerValue(0)>>[i]

C26_Witness ==
    /\ SmartsimCallWithMatchingFamilies
    /\ DOMAIN call.parameter = {"host", "nodes", "gpus_per_task"}
    /\ call.parameter["nodes"] = FloatAndHalf(2)
    /\ call.parameter["gpus_per_task"] = IntegerValue(7)
    /\ call.args = <<TextValue("node7"), IntegerValue(6379), IntegerValue(2),
                     IntegerValue(1), IntegerValue(1), IntegerValue(7)>>

====
